---- MODULE Spec2Model ----
(***************************************************************************)
(* Streaming voice session controllers of fastapi-funasr:                  *)
(*   StateMachine + EventHandler   (src/services/state_machine.py,         *)
(*                                  src/services/event_handler.py)         *)
(*   VADSession                    (src/services/vad/session.py)           *)
(*   VADStateMachine               (src/services/vad/state_machine.py)     *)
(*   StreamingVADService           (src/services/vad/streaming.py)         *)
(* Every method is a pure operator on records; an action applies one       *)
(* method to the controller the session uses.                              *)
(***************************************************************************)
EXTENDS Integers, Sequences, FiniteSets, TLC

VARIABLES
    comp,    \* which controller class this session instantiates
    now,     \* wall clock, the value _now_ms() returns
    sm,      \* the StateMachine's fields
    eh,      \* the EventHandler's fields
    calls,   \* callbacks invoked by the last operation, in order
    sent,    \* websocket messages sent by the last operation, in order
    vs,      \* the VADSession's fields
    vsm,     \* the VADStateMachine's fields, its SlidingAudioBuffer included
    svc,     \* the StreamingVADService's fields
    ws,      \* the /funasr/ws route: its connections and module registries
    ab,      \* a chunking audio buffer (ASRAudioBuffer, AudioBuffer)
    kws,     \* the StreamingKWSService's fields
    err,     \* exception the last operation raised ("" when it returned)
    ret,     \* value the last operation returned (<<>> when it returns None)
    op,      \* the last operation
    run      \* the driver of the session: its position in a scripted run,
             \* the moment of its last scripted input, what it observed

vars ==
    <<comp, now, sm, eh, calls, sent, vs, vsm, svc, ws, ab, kws, err, ret, op, run>>

----------------------------------------------------------------------------
(* Bounds of the model *)

\* wall-clock granularity in ms: time passes in steps of Quantum
Quantum == 200
\* ages are followed up to Horizon quanta, which is beyond every timeout of
\* the program; an older timestamp keeps the age Horizon * Quantum
Horizon == 6
\* longest boundary batch delivered in one call
MaxBatch == 2
\* most samples a VADSession buffers between two clears (300 ms)
MaxSamples == 4800
\* most open boundaries a VADSession retains
MaxPending == 2
\* most samples pushed to a VADStateMachine between two clears
MaxPushed == 96000
\* most raw segments a StreamingVADService accumulates
MaxRaw == 3
\* most samples a StreamingVADService processes between two resets (400 ms)
MaxTotal == 6400
\* most samples the EventHandler's buffer holds while nothing drains it
MaxBuffered == 9600

----------------------------------------------------------------------------
(* Program constants *)

\* Optional[int] = None
None == -1
silence_timeout_ms == 1000
min_speech_duration_ms == 200
end_debounce_ms == 600
start_debounce_ms == 200
continuation_window_ms == 800
\* ASRAudioBuffer(target_len=9600)
target_len == 9600
\* VADSession.sample_rate, SlidingAudioBuffer(sample_rate=16000)
sample_rate == 16000
\* VADStateMachine(buffer_duration_sec=5.0)
buffer_duration_sec == 5

IDLE == "idle"
SPEAKING == "speaking"
VOICE_END == "voice_end"
WAKEUP == "wakeup"

----------------------------------------------------------------------------
(* The world an operation of StateMachine acts on: the machine, its        *)
(* handler, and what the operation emitted so far.                         *)

World(m, h) == [sm |-> m, eh |-> h, calls |-> <<>>, sent |-> <<>>, err |-> ""]

\* a callback invocation is recorded as <<name, arguments...>>
Call(w, c) == [w EXCEPT !.calls = Append(@, c)]

\* EventHandler._send(msg_type, payload): one JSON message to the client
Send(w, msg) == [w EXCEPT !.sent = Append(@, msg)]

\* StateMachine.__init__
SM_init ==
    [ state |-> IDLE,
      current_speech_start_ms |-> None,
      last_active_time_ms |-> None,
      last_vad_end_time_ms |-> None,
      pending_start_time_ms |-> None,
      pending_end_time_ms |-> None ]

\* EventHandler.__init__ ; buf is len(audio_buffer.buf), stream is
\* "_asr_stream is not None"
EH_init ==
    [ state |-> IDLE, buf |-> 0, is_bot_speaking |-> FALSE, stream |-> FALSE ]

\* EventHandler._reset: the body of the coroutine
EH_reset(w) == [w EXCEPT !.eh.buf = 0, !.eh.stream = FALSE]

\* `self._reset()` without await: the coroutine object is created and
\* dropped, its body never runs
NotAwaited(w, after) == w

\* EventHandler.on_voice_start
on_voice_start(w) ==
    LET w1 == Call(w, <<"on_voice_start">>) IN
    IF w1.eh.state # IDLE THEN w1
    ELSE Send([w1 EXCEPT !.eh.state = SPEAKING], "voice_start")

\* EventHandler.on_voice_end
on_voice_end(w) ==
    LET w1 == Call(w, <<"on_voice_end">>)
        w2 == IF w1.eh.state = WAKEUP
                THEN Send(w1, "asr_result")
                ELSE Send(w1, "voice_end")
        w3 == [w2 EXCEPT !.eh.state = IDLE]
    IN  NotAwaited(w3, EH_reset(w3))

\* EventHandler.on_vad_interrupt: _send("interrupt") is called without its
\* payload argument, which raises TypeError before anything is sent
on_vad_interrupt(w) ==
    LET w1 == Call(w, <<"on_vad_interrupt">>) IN
    IF w1.eh.state = SPEAKING
      THEN [w1 EXCEPT !.err = "TypeError"]
      ELSE NotAwaited(w1, EH_reset(w1))

\* EventHandler._trigger_wakeup: both _send calls lack the payload argument
\* and raise TypeError; in WAKEUP, _asr_stream.reset() comes first and raises
\* AttributeError when no stream exists
trigger_wakeup(w) ==
    IF w.eh.state = WAKEUP
      THEN IF ~w.eh.stream THEN [w EXCEPT !.err = "AttributeError"]
           ELSE [w EXCEPT !.err = "TypeError"]
      ELSE [w EXCEPT !.eh.state = WAKEUP, !.err = "TypeError"]

RECURSIVE SendTimes(_, _, _)
SendTimes(w, msg, k) == IF k = 0 THEN w ELSE SendTimes(Send(w, msg), msg, k - 1)

\* EventHandler.on_voice_active on a chunk of n samples; has_keyword is what
\* the KWS engine answers (asked only while the bot speaks). The ASR stream
\* is an external engine whose create_stream and feed_chunk succeed.
on_voice_active(w, dtype, n, has_keyword) ==
    LET w0 == Call(w, <<"on_voice_active">>) IN
    IF dtype # "int16" THEN [w0 EXCEPT !.err = "ValueError"]
    ELSE
      LET w1 == [w0 EXCEPT !.eh.buf = @ + n] IN
      IF w1.eh.is_bot_speaking
        THEN IF has_keyword THEN trigger_wakeup(w1) ELSE w1
        ELSE SendTimes([w1 EXCEPT !.eh.state = SPEAKING,
                                  !.eh.buf = @ % target_len,
                                  !.eh.stream = TRUE],
                       "asr_event", w1.eh.buf \div target_len)

\* EventHandler.set_bot_speaking
set_bot_speaking(w, speaking) == [w EXCEPT !.eh.is_bot_speaking = speaking]

\* StateMachine._schedule_voice_end
schedule_voice_end(w, t) ==
    IF w.sm.state # SPEAKING THEN w
    ELSE [w EXCEPT !.sm.pending_end_time_ms = t]

\* StateMachine._really_handle_voice_end
really_handle_voice_end(w, t) ==
    IF w.sm.state # SPEAKING THEN w
    ELSE
      LET w1 == IF w.sm.current_speech_start_ms # None
                   /\ ~(t - w.sm.current_speech_start_ms < min_speech_duration_ms)
                  THEN on_voice_end(w)
                  ELSE w
      IN [w1 EXCEPT !.sm.state = IDLE,
                    !.sm.current_speech_start_ms = None,
                    !.sm.last_active_time_ms = None,
                    !.sm.last_vad_end_time_ms = None]

\* StateMachine.check_silence_timeout, step 1: confirm a pending end
tick_end(w, t) ==
    IF w.sm.pending_end_time_ms # None
       /\ t - w.sm.pending_end_time_ms >= end_debounce_ms
      THEN really_handle_voice_end([w EXCEPT !.sm.pending_end_time_ms = None], t)
      ELSE w

\* step 2 with the debounce compared strictly: a start exactly
\* start_debounce_ms old is not confirmed
tick_start_strict(w, t) ==
    IF w.sm.pending_start_time_ms # None
       /\ t - w.sm.pending_start_time_ms > start_debounce_ms
      THEN on_voice_start([w EXCEPT !.sm.pending_start_time_ms = None,
                                    !.sm.state = SPEAKING,
                                    !.sm.current_speech_start_ms = t,
                                    !.sm.last_active_time_ms = t])
      ELSE w

\* StateMachine.check_silence_timeout, step 2: confirm a pending start
tick_start(w, t) ==
    IF w.sm.pending_start_time_ms # None
       /\ t - w.sm.pending_start_time_ms >= start_debounce_ms
      THEN on_voice_start([w EXCEPT !.sm.pending_start_time_ms = None,
                                    !.sm.state = SPEAKING,
                                    !.sm.current_speech_start_ms = t,
                                    !.sm.last_active_time_ms = t])
      ELSE w

\* step 3 firing already when the silence is exactly silence_timeout_ms long
tick_silence_eager(w, t) ==
    IF w.sm.state = SPEAKING /\ w.sm.last_active_time_ms # None
       /\ t - w.sm.last_active_time_ms >= silence_timeout_ms
      THEN schedule_voice_end(w, t)
      ELSE w

\* StateMachine.check_silence_timeout, step 3: silence timeout
tick_silence(w, t) ==
    IF w.sm.state = SPEAKING /\ w.sm.last_active_time_ms # None
       /\ t - w.sm.last_active_time_ms > silence_timeout_ms
      THEN schedule_voice_end(w, t)
      ELSE w

\* StateMachine.check_silence_timeout
check_silence_timeout(w, t) == tick_silence(tick_start(tick_end(w, t), t), t)

\* one item of a boundary batch is a sequence; a well-formed one has length 2
IsOpen(seg) == Len(seg) = 2 /\ seg[1] # -1 /\ seg[2] = -1

\* StateMachine.update_vad_result, the scan of the batch: has_start
has_start(segs) ==
    \E i \in 1..Len(segs) : IsOpen(segs[i]) /\ ~(segs[i][1] < 100)

\* StateMachine.update_vad_result, the scan of the batch: has_end
has_end(segs) ==
    \E i \in 1..Len(segs) : Len(segs[i]) = 2 /\ ~IsOpen(segs[i]) /\ segs[i][2] # -1

\* StateMachine.update_vad_result, the `if has_start:` block (every path of
\* it that returns early skips only the end-only block, which has_start
\* excludes anyway)
handle_start(w, t) ==
    IF w.sm.state = SPEAKING THEN w
    ELSE IF w.sm.pending_start_time_ms # None THEN w
    ELSE IF w.sm.last_vad_end_time_ms # None
            /\ t - w.sm.last_vad_end_time_ms < continuation_window_ms
      THEN [w EXCEPT !.sm.state = SPEAKING, !.sm.last_active_time_ms = t]
    ELSE [w EXCEPT !.sm.pending_start_time_ms = t]

\* the end-only block leaving a too short candidate armed
handle_end_only_keeps_short(w, t) ==
    IF w.sm.state = SPEAKING THEN schedule_voice_end(w, t)
    ELSE IF w.sm.pending_start_time_ms # None
      THEN LET duration == t - w.sm.pending_start_time_ms IN
           IF duration < min_speech_duration_ms
             THEN w
             ELSE schedule_voice_end(
                    on_voice_start([w EXCEPT !.sm.pending_start_time_ms = None,
                                             !.sm.state = SPEAKING,
                                             !.sm.current_speech_start_ms = t - duration,
                                             !.sm.last_active_time_ms = t]), t)
    ELSE w

\* the end-only block confirming a start without arming the end debounce
handle_end_only_no_end(w, t) ==
    IF w.sm.state = SPEAKING THEN schedule_voice_end(w, t)
    ELSE IF w.sm.pending_start_time_ms # None
      THEN LET duration == t - w.sm.pending_start_time_ms IN
           IF duration < min_speech_duration_ms
             THEN [w EXCEPT !.sm.pending_start_time_ms = None]
             ELSE on_voice_start([w EXCEPT !.sm.pending_start_time_ms = None,
                                           !.sm.state = SPEAKING,
                                           !.sm.current_speech_start_ms = t - duration,
                                           !.sm.last_active_time_ms = t])
    ELSE w

\* StateMachine.update_vad_result, the `if has_end and not has_start:` block
handle_end_only(w, t) ==
    IF w.sm.state = SPEAKING THEN schedule_voice_end(w, t)
    ELSE IF w.sm.pending_start_time_ms # None
      THEN LET duration == t - w.sm.pending_start_time_ms IN
           IF duration < min_speech_duration_ms
             THEN [w EXCEPT !.sm.pending_start_time_ms = None]
             ELSE schedule_voice_end(
                    on_voice_start([w EXCEPT !.sm.pending_start_time_ms = None,
                                             !.sm.state = SPEAKING,
                                             !.sm.current_speech_start_ms = t - duration,
                                             !.sm.last_active_time_ms = t]), t)
    ELSE w

\* a boundary field that is not a number (a string, None): it differs from
\* -1, and ordering it against an int raises TypeError
NonNumeric == -2

\* StateMachine.update_vad_result ; the scan raises at `start < 100` on an
\* item whose start is not a number and whose end is -1, before any field
\* is assigned
update_vad_result(w, segs, t) ==
    IF \E i \in 1..Len(segs) : IsOpen(segs[i]) /\ segs[i][1] = NonNumeric
      THEN [w EXCEPT !.err = "TypeError"]
    ELSE
    LET hs == has_start(segs)
        he == has_end(segs)
        w1 == IF he THEN [w EXCEPT !.sm.last_vad_end_time_ms = t] ELSE w
    IN  IF hs THEN handle_start(w1, t)
        ELSE IF he THEN handle_end_only(w1, t)
        ELSE w1

\* StateMachine.add_audio_chunk
add_audio_chunk(w, dtype, t) ==
    IF dtype \notin {"float32", "int16"} THEN [w EXCEPT !.err = "ValueError"]
    ELSE IF w.sm.state = SPEAKING THEN [w EXCEPT !.sm.last_active_time_ms = t]
    ELSE w

\* interrupt that leaves the debounce timers armed
interrupt_keeps_timers(w) ==
    LET w1 == [w EXCEPT !.sm.last_vad_end_time_ms = None]
    IN  IF w1.sm.state = SPEAKING
          THEN on_vad_interrupt([w1 EXCEPT !.sm.state = IDLE,
                                           !.sm.current_speech_start_ms = None,
                                           !.sm.last_active_time_ms = None])
          ELSE w1

\* StateMachine.interrupt
interrupt(w) ==
    LET w1 == [w EXCEPT !.sm.pending_start_time_ms = None,
                        !.sm.pending_end_time_ms = None,
                        !.sm.last_vad_end_time_ms = None]
    IN  IF w1.sm.state = SPEAKING
          THEN on_vad_interrupt([w1 EXCEPT !.sm.state = IDLE,
                                           !.sm.current_speech_start_ms = None,
                                           !.sm.last_active_time_ms = None])
          ELSE w1

\* StateMachine.reset
reset(w) == [w EXCEPT !.sm = SM_init]

----------------------------------------------------------------------------
(* VADSession (src/services/vad/session.py). An operation acts on          *)
(* [vs, calls, err]; every callback is installed.                          *)

\* VADSession.__init__ ; audio_buffer is the list of chunks, a chunk being
\* its number of samples
VS_init ==
    [ state |-> IDLE,
      audio_buffer |-> <<>>,
      total_samples |-> 0,
      speech_start_time_ms |-> None,
      pending_segments |-> <<>> ]

VS_World(v) == [vs |-> v, calls |-> <<>>, err |-> ""]

\* VADSession.add_audio_chunk with the sample counter advanced before the
\* encoding is validated
VS_add_audio_chunk_counts_first(x, dtype, n) ==
    IF dtype \notin {"float32", "int16"}
      THEN [x EXCEPT !.err = "ValueError", !.vs.total_samples = @ + n]
    ELSE [x EXCEPT !.vs.audio_buffer = Append(@, n),
                   !.vs.total_samples = @ + n]

\* VADSession.add_audio_chunk
VS_add_audio_chunk(x, dtype, n) ==
    IF dtype \notin {"float32", "int16"} THEN [x EXCEPT !.err = "ValueError"]
    ELSE [x EXCEPT !.vs.audio_buffer = Append(@, n),
                   !.vs.total_samples = @ + n]

\* VADSession.get_total_duration_ms rounding up instead of truncating
VS_get_total_duration_ms_ceil(v) ==
    (v.total_samples * 1000 + sample_rate - 1) \div sample_rate

\* VADSession.get_total_duration_ms
VS_get_total_duration_ms(v) == (v.total_samples * 1000) \div sample_rate

\* VADSession._on_voice_start
VS_on_voice_start(x, start_ms) ==
    IF x.vs.state = IDLE
      THEN Call([x EXCEPT !.vs.state = SPEAKING,
                          !.vs.speech_start_time_ms = start_ms],
                <<"on_voice_start">>)
      ELSE x

\* VADSession._reset_buffer
VS_reset_buffer(v) ==
    [v EXCEPT !.audio_buffer = <<>>,
              !.total_samples = 0,
              !.speech_start_time_ms = None,
              !.state = IDLE]

\* VADSession._handle_complete_speech ; full_audio is the concatenation of
\* the buffered chunks, kept as the list of chunks
VS_handle_complete_speech(x, start_ms, end_ms) ==
    IF x.vs.state \in {SPEAKING, IDLE}
      THEN LET full_audio == x.vs.audio_buffer
               x1 == Call([x EXCEPT !.vs.state = VOICE_END],
                          <<"on_voice_end", full_audio, start_ms, end_ms>>)
           IN  [x1 EXCEPT !.vs = VS_reset_buffer(@)]
      ELSE x

\* the index the backward search of update_vad_result stops at: the last
\* pending entry that is an open boundary (0 when the loop runs to its else)
LastOpen(pending) ==
    LET hits == { i \in 1..Len(pending) :
                    pending[i][1] # -1 /\ pending[i][2] = -1 }
    IN  IF hits = {} THEN 0 ELSE CHOOSE i \in hits : \A j \in hits : j <= i

\* list.pop(i)
Pop(q, i) == [k \in 1..(Len(q) - 1) |-> IF k < i THEN q[k] ELSE q[k + 1]]

\* the handling of one boundary without the start-before-end filter
VS_segment_unfiltered(x, seg) ==
    IF Len(seg) # 2 THEN x
    ELSE
      LET start == seg[1]
          end == seg[2]
      IN
      IF start # -1 /\ end = -1
        THEN IF start < 100 THEN x
             ELSE LET x1 == IF x.vs.state = IDLE
                              THEN VS_on_voice_start(x, start) ELSE x
                  IN  [x1 EXCEPT !.vs.pending_segments = Append(@, <<start, -1>>)]
      ELSE IF end # -1
        THEN LET i == LastOpen(x.vs.pending_segments)
                 actual_start == IF start # -1 THEN start
                                 ELSE IF i # 0 THEN x.vs.pending_segments[i][1]
                                 ELSE -1
                 x1 == IF start = -1 /\ i # 0
                         THEN [x EXCEPT !.vs.pending_segments = Pop(@, i)]
                         ELSE x
             IN  IF start = -1 /\ i = 0 THEN x1
                 ELSE IF actual_start < 100 THEN x1
                 ELSE IF x1.vs.state \in {SPEAKING, IDLE}
                   THEN VS_handle_complete_speech(x1, actual_start, end)
                 ELSE x1
      ELSE x

\* VADSession.update_vad_result, the body of the loop for one segment
VS_segment(x, seg) ==
    IF Len(seg) # 2 THEN x
    ELSE
      LET start == seg[1]
          end == seg[2]
      IN
      IF start # -1 /\ end = -1
        THEN IF start < 100 THEN x
             ELSE LET x1 == IF x.vs.state = IDLE
                              THEN VS_on_voice_start(x, start) ELSE x
                  IN  [x1 EXCEPT !.vs.pending_segments = Append(@, <<start, -1>>)]
      ELSE IF end # -1
        THEN LET i == LastOpen(x.vs.pending_segments)
                 found == start # -1 \/ i # 0
                 actual_start == IF start # -1 THEN start
                                 ELSE IF i # 0 THEN x.vs.pending_segments[i][1]
                                 ELSE -1
                 x1 == IF start = -1 /\ i # 0
                         THEN [x EXCEPT !.vs.pending_segments = Pop(@, i)]
                         ELSE x
             IN  IF ~found THEN x1
                 ELSE IF actual_start >= end \/ actual_start < 100 THEN x1
                 ELSE IF x1.vs.state \in {SPEAKING, IDLE}
                   THEN VS_handle_complete_speech(x1, actual_start, end)
                 ELSE x1
      ELSE x

RECURSIVE VS_loop(_, _)
\* VADSession.update_vad_result, the loop over all_segments
VS_loop(x, segs) ==
    IF segs = <<>> THEN x
    ELSE VS_loop(VS_segment(x, Head(segs)), Tail(segs))

\* VADSession.update_vad_result
VS_update_vad_result(x, vad_segments) ==
    LET current_time_ms == VS_get_total_duration_ms(x.vs)
        all_segments == x.vs.pending_segments \o vad_segments
        x1 == VS_loop([x EXCEPT !.vs.pending_segments = <<>>], all_segments)
    IN  IF x1.vs.state = SPEAKING /\ x1.vs.audio_buffer # <<>>
          THEN Call(x1, <<"on_voice_active",
                          x1.vs.audio_buffer[Len(x1.vs.audio_buffer)],
                          current_time_ms>>)
          ELSE x1

\* VADSession.interrupt
VS_interrupt(x) ==
    IF x.vs.state \in {SPEAKING, VOICE_END}
      THEN Call([x EXCEPT !.vs = [VS_reset_buffer(@) EXCEPT
                                    !.pending_segments = <<>>]],
                <<"on_vad_interrupt">>)
      ELSE x

\* reset that clears the buffer and leaves the retained boundaries
VS_reset_keeps_pending(x) == [x EXCEPT !.vs = VS_reset_buffer(@)]

\* VADSession.reset
VS_reset(x) ==
    [x EXCEPT !.vs = [VS_reset_buffer(@) EXCEPT !.pending_segments = <<>>]]

----------------------------------------------------------------------------
(* VADStateMachine and its SlidingAudioBuffer                              *)
(* (src/services/vad/state_machine.py, src/services/vad/audio_buffer.py).  *)
(* An operation acts on [vsm, calls, err]; every callback is installed.    *)

VAD_ACTIVE == "vad_active"
ASR_ACTIVE == "asr_active"
INTERRUPTING == "interrupting"

\* SlidingAudioBuffer.__init__: max_samples = int(sample_rate * max_duration_sec)
max_samples == sample_rate * buffer_duration_sec

\* SlidingAudioBuffer.__init__ ; buffer is len(self.buffer): the deque holds
\* the last `buffer` samples pushed
SAB_init == [buffer |-> 0, total_pushed |-> 0]

Min(a, b) == IF a <= b THEN a ELSE b
Max(a, b) == IF a >= b THEN a ELSE b

\* SlidingAudioBuffer.push on a float32 chunk of n samples: a deque with
\* maxlen drops its oldest items
SAB_push(b, n) ==
    [buffer |-> Min(b.buffer + n, max_samples), total_pushed |-> b.total_pushed + n]

\* SlidingAudioBuffer.clear
SAB_clear(b) == [buffer |-> 0, total_pushed |-> 0]

\* SlidingAudioBuffer.get_all: the samples held, as (first, last) positions
\* in the sequence of samples pushed since the last clear
SAB_get_all(b) == <<b.total_pushed - b.buffer, b.total_pushed>>

\* VADStateMachine.__init__
VSM_init ==
    [ state |-> IDLE,
      audio_buffer |-> SAB_init,
      speech_start_ms |-> None,
      last_voice_ms |-> None ]

VSM_World(v) == [vsm |-> v, calls |-> <<>>, err |-> ""]

\* VADStateMachine.add_audio_chunk
VSM_add_audio_chunk(x, dtype, n) ==
    IF dtype # "float32" THEN [x EXCEPT !.err = "ValueError"]
    ELSE [x EXCEPT !.vsm.audio_buffer = SAB_push(@, n)]

\* VADStateMachine.get_current_time_ms
VSM_get_current_time_ms(v) ==
    (v.audio_buffer.total_pushed * 1000) \div sample_rate

\* VADStateMachine._enter_vad_active
VSM_enter_vad_active(x, start_ms) ==
    Call([x EXCEPT !.vsm.speech_start_ms = start_ms,
                   !.vsm.last_voice_ms = start_ms,
                   !.vsm.state = VAD_ACTIVE],
         <<"on_vad_start">>)

\* VADStateMachine._force_end
VSM_force_end(x) ==
    [x EXCEPT !.vsm.state = IDLE,
              !.vsm.audio_buffer = SAB_clear(@),
              !.vsm.speech_start_ms = None,
              !.vsm.last_voice_ms = None]

\* VADStateMachine.on_vad_segments, the body of the loop for one segment
VSM_segment(x, seg) ==
    IF Len(seg) # 2 THEN x
    ELSE IF seg[1] # -1 /\ seg[2] = -1
      THEN IF x.vsm.state = IDLE THEN VSM_enter_vad_active(x, seg[1]) ELSE x
    ELSE IF seg[2] # -1
      THEN IF x.vsm.state \in {VAD_ACTIVE, ASR_ACTIVE}
             THEN VSM_force_end(
                    Call(x, <<"on_asr_end", SAB_get_all(x.vsm.audio_buffer)>>))
             ELSE x
    ELSE x

RECURSIVE VSM_on_vad_segments(_, _)
\* VADStateMachine.on_vad_segments
VSM_on_vad_segments(x, segments) ==
    IF segments = <<>> THEN x
    ELSE VSM_on_vad_segments(VSM_segment(x, Head(segments)), Tail(segments))

\* trigger_kws_wakeup without the test of the state
VSM_trigger_kws_wakeup_any(x) ==
    LET x1 == Call([x EXCEPT !.vsm.state = INTERRUPTING], <<"on_interrupt">>)
        x2 == [x1 EXCEPT !.vsm.state = ASR_ACTIVE]
    IN  Call(x2, <<"on_asr_end", SAB_get_all(x2.vsm.audio_buffer)>>)

\* VADStateMachine.trigger_kws_wakeup
VSM_trigger_kws_wakeup(x) ==
    IF x.vsm.state \in {VAD_ACTIVE, ASR_ACTIVE}
      THEN LET x1 == Call([x EXCEPT !.vsm.state = INTERRUPTING], <<"on_interrupt">>)
               x2 == [x1 EXCEPT !.vsm.state = ASR_ACTIVE]
           IN  Call(x2, <<"on_asr_end", SAB_get_all(x2.vsm.audio_buffer)>>)
      ELSE x

\* VADStateMachine.reset
VSM_reset(x) ==
    [x EXCEPT !.vsm.state = IDLE,
              !.vsm.audio_buffer = SAB_clear(@),
              !.vsm.speech_start_ms = None,
              !.vsm.last_voice_ms = None]

----------------------------------------------------------------------------
(* StreamingVADService (src/services/vad/streaming.py). The VAD model is   *)
(* an external engine: what generate() returns is an input of the action.  *)

\* StreamingVADService.__init__(merge_gap_ms=50)
merge_gap_ms == 50

\* StreamingVADService.reset
SVC_init ==
    [ total_samples |-> 0,
      last_vad_state |-> 0,
      accumulated_raw_segments |-> <<>>,
      has_warmup |-> FALSE ]

RECURSIVE InsertByStart(_, _)
\* insertion that keeps equal starts in their order of arrival, as the
\* stable sorted(key=lambda x: x[0]) does
InsertByStart(sorted, seg) ==
    IF sorted = <<>> THEN <<seg>>
    ELSE IF seg[1] < Head(sorted)[1] THEN <<seg>> \o sorted
    ELSE <<Head(sorted)>> \o InsertByStart(Tail(sorted), seg)

RECURSIVE SortByStart(_)
\* sorted(valid_segs, key=lambda x: x[0])
SortByStart(q) ==
    IF q = <<>> THEN <<>>
    ELSE InsertByStart(SortByStart(SubSeq(q, 1, Len(q) - 1)), q[Len(q)])

RECURSIVE valid_segs(_)
\* StreamingVADService._merge_segments: [s for s in segments if s[0] < s[1]]
valid_segs(segments) ==
    IF segments = <<>> THEN <<>>
    ELSE (IF Head(segments)[1] < Head(segments)[2] THEN <<Head(segments)>> ELSE <<>>)
           \o valid_segs(Tail(segments))

\* the bridging test with the gap compared strictly
Bridges_strict(last, curr) == curr[1] < last[2] + merge_gap_ms

\* StreamingVADService._merge_segments: whether curr extends the last
\* merged segment
Bridges(last, curr) == curr[1] <= last[2] + merge_gap_ms

RECURSIVE MergeLoop(_, _)
\* StreamingVADService._merge_segments, the loop over sorted_segs[1:]
MergeLoop(merged, rest) ==
    IF rest = <<>> THEN merged
    ELSE LET curr == Head(rest)
             last == merged[Len(merged)]
         IN  IF Bridges(last, curr)
               THEN MergeLoop([merged EXCEPT ![Len(merged)] =
                                 <<last[1], Max(last[2], curr[2])>>], Tail(rest))
               ELSE MergeLoop(Append(merged, curr), Tail(rest))

RECURSIVE MergeLoopPrev(_, _, _)
\* the loop with curr tested against the previous input segment instead of
\* the last merged one
MergeLoopPrev(merged, prev, rest) ==
    IF rest = <<>> THEN merged
    ELSE LET curr == Head(rest)
             last == merged[Len(merged)]
         IN  IF curr[1] <= prev[2] + merge_gap_ms
               THEN MergeLoopPrev([merged EXCEPT ![Len(merged)] =
                                     <<last[1], Max(last[2], curr[2])>>],
                                  curr, Tail(rest))
               ELSE MergeLoopPrev(Append(merged, curr), curr, Tail(rest))

\* the merge built on that loop
merge_segments_prev(segments) ==
    LET valid == valid_segs(segments) IN
    IF valid = <<>> THEN <<>>
    ELSE LET sorted_segs == SortByStart(valid)
         IN  MergeLoopPrev(<<Head(sorted_segs)>>, Head(sorted_segs),
                           Tail(sorted_segs))

\* StreamingVADService._merge_segments
merge_segments(segments) ==
    IF segments = <<>> THEN <<>>
    ELSE LET valid == valid_segs(segments) IN
         IF valid = <<>> THEN <<>>
         ELSE LET sorted_segs == SortByStart(valid)
              IN  MergeLoop(<<Head(sorted_segs)>>, Tail(sorted_segs))

\* the resolution of one raw segment that forgets the open boundaries
resolve_one_drops_open(seg, total_duration_ms) ==
    IF Len(seg) # 2 THEN <<>>
    ELSE LET start == seg[1]
             end == seg[2]
         IN  IF start # -1 /\ end # -1
               THEN IF start < end THEN << <<start, end>> >> ELSE <<>>
             ELSE IF start = -1 /\ end # -1
               THEN IF 0 < end THEN << <<0, end>> >> ELSE <<>>
             ELSE <<>>

\* StreamingVADService._resolve_vad_segments, one raw segment: the list of
\* resolved segments it contributes
resolve_one(seg, total_duration_ms) ==
    IF Len(seg) # 2 THEN <<>>
    ELSE LET start == seg[1]
             end == seg[2]
         IN  IF start # -1 /\ end # -1
               THEN IF start < end THEN << <<start, end>> >> ELSE <<>>
             ELSE IF start # -1 /\ end = -1
               THEN IF start < total_duration_ms
                      THEN << <<start, total_duration_ms>> >> ELSE <<>>
             ELSE IF start = -1 /\ end # -1
               THEN IF 0 < end THEN << <<0, end>> >> ELSE <<>>
             ELSE <<>>

RECURSIVE resolve_vad_segments(_, _)
\* StreamingVADService._resolve_vad_segments
resolve_vad_segments(segments, total_duration_ms) ==
    IF segments = <<>> THEN <<>>
    ELSE resolve_one(Head(segments), total_duration_ms)
           \o resolve_vad_segments(Tail(segments), total_duration_ms)

RECURSIVE valid_segments(_)
\* the format check of process() and finish(): the items that are a list of
\* two
valid_segments(segments_ms) ==
    IF segments_ms = <<>> THEN <<>>
    ELSE (IF Len(Head(segments_ms)) = 2 THEN <<Head(segments_ms)>> ELSE <<>>)
           \o valid_segments(Tail(segments_ms))

\* StreamingVADService.get_total_duration_ms: int(total_samples / 16.0)
SVC_get_total_duration_ms(v) == v.total_samples \div 16

\* StreamingVADService.process on a chunk of n samples for which the model
\* returns segments_ms: <<the service, the value returned, the exception>>
SVC_process(v, dtype, n, segments_ms) ==
    IF n = 0 THEN <<v, <<>>, "">>
    ELSE IF dtype # "int16" THEN <<v, <<>>, "ValueError">>
    ELSE LET valid == valid_segments(segments_ms)
             v1 == [v EXCEPT
                      !.has_warmup = TRUE,
                      !.total_samples = @ + n,
                      !.last_vad_state =
                          IF \E i \in 1..Len(valid) : valid[i][2] = -1 THEN 1 ELSE 0,
                      !.accumulated_raw_segments = @ \o valid]
         IN  <<v1, valid, "">>

\* StreamingVADService.finish when the model's final call returns
\* final_segments: <<the service, the value returned, the exception>>
SVC_finish(v, final_segments) ==
    IF v.total_samples = 0 THEN <<v, <<>>, "">>
    ELSE LET all_raw == v.accumulated_raw_segments \o valid_segments(final_segments)
             total_duration_ms == v.total_samples \div 16
             resolved == resolve_vad_segments(all_raw, total_duration_ms)
         IN  <<v, merge_segments(resolved), "">>

\* StreamingVADService.is_speech_active
SVC_is_speech_active(v) == v.last_vad_state = 1

----------------------------------------------------------------------------
(* Inputs *)

Lists(S, n) == UNION { [1..k -> S] : k \in 0..n }

\* raw boundaries the VAD engine delivers to StateMachine, which reads only
\* their shape: open, early open, close-only, closed, (-1,-1), wrong arity
SM_Items == { <<500, -1>>, <<50, -1>>, <<-1, 3000>>, <<500, 3000>>,
              <<-1, -1>>, <<500>> }
SM_Batches == Lists(SM_Items, MaxBatch)

\* chunks handed to EventHandler.on_voice_active, in samples
EH_ChunkLens == {4800}

\* raw boundaries delivered to VADSession, in ms of audio time
VS_Items == { <<50, -1>>, <<100, -1>>, <<200, -1>>,
              <<-1, 200>>, <<100, 400>>,
              <<-1, -1>>, <<100>> }
VS_Batches == Lists(VS_Items, MaxBatch)

\* chunks pushed to VADSession, in samples (100 ms and 200 ms)
VS_ChunkLens == {1600, 3200}

\* raw boundaries delivered to VADStateMachine
VSM_Items == { <<500, -1>>, <<1000, -1>>, <<-1, 3000>>, <<500, 3000>>,
               <<-1, -1>>, <<500>> }
VSM_Batches == Lists(VSM_Items, MaxBatch)

\* chunks pushed to VADStateMachine, in samples (2 s and 3 s)
VSM_ChunkLens == {32000, 48000}

\* what the VAD model returns to StreamingVADService for one chunk
SVC_Items == { <<100, -1>>, <<50, -1>>, <<-1, 150>>, <<100, 150>>, <<200, 250>>,
               <<400, 450>>, <<150, 100>>, <<-1, -1>>, <<100>> }
SVC_Outputs == Lists(SVC_Items, 1)

\* chunks processed by StreamingVADService, in samples (0, 100 and 200 ms)
SVC_ChunkLens == {0, 1600, 3200}

Dtypes == {"float32", "int16", "float64"}

----------------------------------------------------------------------------
(* Actions on a session driven by StateMachine and its EventHandler *)

\* an operation of the machine has run: the variables take the world's values
Commit(w, name) ==
    /\ sm' = w.sm
    /\ eh' = w.eh
    /\ calls' = w.calls
    /\ sent' = w.sent
    /\ err' = w.err
    /\ ret' = <<>>
    /\ op' = name
    /\ UNCHANGED <<comp, now, vs, vsm, svc, ws, ab, kws>>

\* a timestamp one quantum later, once the clock is held at the horizon
Older(x) == IF x = None THEN None ELSE IF x >= Quantum THEN x - Quantum ELSE 0

\* the machine's timestamps moved back by one quantum
OlderSM(m) == [f \in DOMAIN m |-> IF f = "state" THEN m[f] ELSE Older(m[f])]

\* time passes: one quantum of wall-clock time elapses. The program reads
\* the clock only to store it and to take differences now - x with stored
\* values, so the clock is kept in a frame that moves with it: now stays at
\* the horizon and every stored timestamp moves back by one quantum (an age
\* beyond the horizon is kept at the horizon).
TimePasses ==
    /\ comp = "StateMachine"
    /\ now' = now
    /\ sm' = OlderSM(sm)
    /\ run' = [run EXCEPT !.mark = Older(@)]
    /\ op' = "time"
    /\ calls' = <<>> /\ sent' = <<>> /\ err' = "" /\ ret' = <<>>
    /\ UNCHANGED <<comp, eh, vs, vsm, svc, ws, ab, kws>>

SM_Update ==
    /\ comp = "StateMachine"
    /\ \E segs \in SM_Batches :
         Commit(update_vad_result(World(sm, eh), segs, now), "update_vad_result")
    /\ UNCHANGED run

SM_Tick ==
    /\ comp = "StateMachine"
    /\ Commit(check_silence_timeout(World(sm, eh), now), "check_silence_timeout")
    /\ UNCHANGED run

SM_AddAudio ==
    /\ comp = "StateMachine"
    /\ \E dtype \in Dtypes :
         Commit(add_audio_chunk(World(sm, eh), dtype, now), "add_audio_chunk")
    /\ UNCHANGED run

SM_Interrupt ==
    /\ comp = "StateMachine"
    /\ Commit(interrupt(World(sm, eh)), "interrupt")
    /\ UNCHANGED run

SM_Reset ==
    /\ comp = "StateMachine"
    /\ Commit(reset(World(sm, eh)), "reset")
    /\ UNCHANGED run

\* the transport forwards a chunk to the handler while the machine is Speaking
EH_VoiceActive ==
    /\ comp = "StateMachine"
    /\ sm.state = SPEAKING
    /\ \E dtype \in {"int16", "float32"}, n \in EH_ChunkLens, kw \in BOOLEAN :
         /\ eh.buf + n <= MaxBuffered
         /\ Commit(on_voice_active(World(sm, eh), dtype, n, kw), "on_voice_active")
    /\ UNCHANGED run

EH_SetBotSpeaking ==
    /\ comp = "StateMachine"
    /\ \E b \in BOOLEAN :
         Commit(set_bot_speaking(World(sm, eh), b), "set_bot_speaking")
    /\ UNCHANGED run

----------------------------------------------------------------------------
(* Actions on a session driven by VADSession *)

VS_Commit(x, name) ==
    /\ vs' = x.vs
    /\ calls' = x.calls
    /\ err' = x.err
    /\ sent' = <<>>
    /\ ret' = <<>>
    /\ op' = name
    /\ UNCHANGED <<comp, now, sm, eh, vsm, svc, ws, ab, kws>>

VS_AddAudio ==
    /\ comp = "VADSession"
    /\ \E dtype \in Dtypes, n \in VS_ChunkLens :
         /\ vs.total_samples + n <= MaxSamples
         /\ VS_Commit(VS_add_audio_chunk(VS_World(vs), dtype, n), "add_audio_chunk")
    /\ UNCHANGED run

VS_Update ==
    /\ comp = "VADSession"
    /\ \E segs \in VS_Batches :
         LET x == VS_update_vad_result(VS_World(vs), segs) IN
         /\ Len(x.vs.pending_segments) <= MaxPending
         /\ VS_Commit(x, "update_vad_result")
    /\ UNCHANGED run

VS_Interrupt ==
    /\ comp = "VADSession"
    /\ VS_Commit(VS_interrupt(VS_World(vs)), "interrupt")
    /\ UNCHANGED run

VS_Reset ==
    /\ comp = "VADSession"
    /\ VS_Commit(VS_reset(VS_World(vs)), "reset")
    /\ UNCHANGED run

----------------------------------------------------------------------------
(* Actions on a session driven by VADStateMachine *)

VSM_Commit(x, name) ==
    /\ vsm' = x.vsm
    /\ calls' = x.calls
    /\ err' = x.err
    /\ sent' = <<>>
    /\ ret' = <<>>
    /\ op' = name
    /\ UNCHANGED <<comp, now, sm, eh, vs, svc, ws, ab, kws>>

VSM_AddAudio ==
    /\ comp = "VADStateMachine"
    /\ vsm.audio_buffer.total_pushed < MaxPushed
    /\ \E dtype \in Dtypes, n \in VSM_ChunkLens :
         VSM_Commit(VSM_add_audio_chunk(VSM_World(vsm), dtype, n), "add_audio_chunk")
    /\ UNCHANGED run

VSM_Segments ==
    /\ comp = "VADStateMachine"
    /\ \E segs \in VSM_Batches :
         VSM_Commit(VSM_on_vad_segments(VSM_World(vsm), segs), "on_vad_segments")
    /\ UNCHANGED run

VSM_Wakeup ==
    /\ comp = "VADStateMachine"
    /\ VSM_Commit(VSM_trigger_kws_wakeup(VSM_World(vsm)), "trigger_kws_wakeup")
    /\ UNCHANGED run

VSM_Reset ==
    /\ comp = "VADStateMachine"
    /\ VSM_Commit(VSM_reset(VSM_World(vsm)), "reset")
    /\ UNCHANGED run

----------------------------------------------------------------------------
(* Actions on a StreamingVADService *)

SVC_Commit(r, name) ==
    /\ svc' = r[1]
    /\ ret' = r[2]
    /\ err' = r[3]
    /\ calls' = <<>>
    /\ sent' = <<>>
    /\ op' = name
    /\ UNCHANGED <<comp, now, sm, eh, vs, vsm, ws, ab, kws>>

SVC_Process ==
    /\ comp = "StreamingVADService"
    /\ Len(svc.accumulated_raw_segments) < MaxRaw
    /\ \E dtype \in {"int16", "float32"}, n \in SVC_ChunkLens, out \in SVC_Outputs :
         /\ svc.total_samples + n <= MaxTotal
         /\ SVC_Commit(SVC_process(svc, dtype, n, out), "process")
         /\ run' = [run EXCEPT !.input = out]

SVC_Finish ==
    /\ comp = "StreamingVADService"
    /\ \E out \in SVC_Outputs :
         /\ SVC_Commit(SVC_finish(svc, out), "finish")
         /\ run' = [run EXCEPT !.input = out]

SVC_Reset ==
    /\ comp = "StreamingVADService"
    /\ SVC_Commit(<<SVC_init, <<>>, "">>, "reset")
    /\ UNCHANGED run

----------------------------------------------------------------------------
(* routes/funasr.py: the /funasr/ws endpoint.  Every connection draws a    *)
(* fresh uuid4 as its session id; the three registries are module-level    *)
(* dicts shared by all connections of the process.  The handler is a       *)
(* coroutine of one event loop: between two awaits it runs alone, and it   *)
(* reads and writes the registries only under its own session id, so the   *)
(* handling of one message is one step of the model.                       *)

\* how many connections the model follows, each with its own session id
MaxSessions == 2
Sessions == 1 .. MaxSessions
\* how many chunks audio_buffers[session_id] is followed up to
MaxCached == 2

\* VADStream.get_voice_state of a stream whose _last_vad_state is l
Stream_get_voice_state(l) == IF l = 1 THEN SPEAKING ELSE IDLE

\* a connection before websocket_asr runs for it
WS_conn_init ==
    [status |-> "none", stream |-> FALSE, last_vad_state |-> 0,
     prev_vad_state |-> IDLE]

\* the module as imported: the three registries are empty dicts.  A key
\* absent from session_states reads "absent", one absent from
\* audio_buffers reads -1; otherwise audio_buffers holds the list length.
WS_init ==
    [conn |-> [s \in Sessions |-> WS_conn_init],
     active_streams |-> {},
     session_states |-> [s \in Sessions |-> "absent"],
     audio_buffers |-> [s \in Sessions |-> -1]]

\* websocket_asr up to its receive loop; initialized is what
\* vad_service.is_initialized() answers
WS_accept(w, s, initialized) ==
    IF initialized
    THEN <<[w EXCEPT !.conn[s] = [WS_conn_init EXCEPT !.status = "open",
                                                       !.stream = TRUE],
                     !.active_streams = @ \cup {s},
                     !.audio_buffers[s] = 0],
           <<>>>>
    ELSE <<[w EXCEPT !.conn[s] = [WS_conn_init EXCEPT !.status = "open"]],
           <<"warning">>>>

\* the "start" message
WS_start(w, s) ==
    <<[w EXCEPT !.session_states[s] = IDLE], <<"started">>>>

\* the "audio" message.  outcome is what becomes of the chunk: "invalid"
\* (not a list, out of [-1,1], length not a multiple of 160), "raises"
\* (model.generate raises), "segments" / "nothing" (the value the model
\* returned is non-empty / empty).
WS_audio(w, s, outcome) ==
    LET c == w.conn[s] IN
    IF ~c.stream THEN <<w, <<"error">>>>
    ELSE IF outcome \in {"invalid", "raises"} THEN <<w, <<"error">>>>
    ELSE
        LET l == IF outcome = "segments" THEN 1 ELSE 0
            current_vad_state == Stream_get_voice_state(l)
            prev == c.prev_vad_state
            w1 == [w EXCEPT !.conn[s].last_vad_state = l,
                            !.conn[s].prev_vad_state = current_vad_state]
        IN  IF prev \in {IDLE, VOICE_END} /\ current_vad_state = SPEAKING
            THEN <<[w1 EXCEPT !.audio_buffers[s] = 1,
                              !.session_states[s] = SPEAKING],
                   <<"voice_start">>>>
            ELSE IF prev = SPEAKING /\ current_vad_state = VOICE_END
            THEN <<[w1 EXCEPT !.audio_buffers[s] = @ + 1,
                              !.session_states[s] = VOICE_END],
                   <<"voice_end">>>>
            ELSE IF current_vad_state = SPEAKING
            THEN <<[w1 EXCEPT !.audio_buffers[s] = @ + 1,
                              !.session_states[s] = SPEAKING],
                   <<>>>>
            ELSE IF current_vad_state = IDLE /\ prev = VOICE_END
            THEN <<[w1 EXCEPT !.session_states[s] = IDLE], <<>>>>
            ELSE <<w1, <<>>>>

\* the "reset" message: VADStream.reset() when there is a stream
WS_reset(w, s) ==
    IF w.conn[s].stream
    THEN <<[w EXCEPT !.conn[s].last_vad_state = 0], <<"info">>>>
    ELSE <<w, <<>>>>

\* any other message type
WS_other(w, s) == <<w, <<"warning">>>>

\* the finally block, reached by "stop" (break) and by any exception of
\* the receive loop, a disconnect included
WS_finally(w, s) ==
    [w EXCEPT !.conn[s].status = "ended",
              !.active_streams = @ \ {s}]

\* the "stop" message
WS_stop(w, s) == <<WS_finally(w, s), <<"stopped">>>>

\* receive_json raises: the client went away or sent no JSON
WS_disconnect(w, s) == <<WS_finally(w, s), <<>>>>

----------------------------------------------------------------------------
(* The chunking buffers: event_handler.ASRAudioBuffer (float32, 9600),     *)
(* routes/test_vad.AudioBuffer (int16, 1600) and asr/streaming's           *)
(* ASRAudioBuffer (float32, 9600, no cast, no clear).  An array is a       *)
(* record of its dtype and its samples; the samples are written as the     *)
(* list of runs <<first, last>> of the positions they had in the input     *)
(* stream, so a lost, repeated or displaced sample shows.                  *)

AB_Classes ==
    {"event_handler.ASRAudioBuffer", "test_vad.AudioBuffer",
     "asr.ASRAudioBuffer"}

AB_dtype(class) == IF class = "test_vad.AudioBuffer" THEN "int16" ELSE "float32"

\* AudioBuffer(target_len=1600)
vad_target_len == 1600
AB_target(class) ==
    IF class = "test_vad.AudioBuffer" THEN vad_target_len ELSE target_len

\* number of samples of a list of runs
RECURSIVE RunsLen(_)
RunsLen(r) ==
    IF r = <<>> THEN 0 ELSE (Head(r)[2] - Head(r)[1] + 1) + RunsLen(Tail(r))

\* r[:n]
RECURSIVE RunsTake(_, _)
RunsTake(r, n) ==
    IF n <= 0 \/ r = <<>> THEN <<>>
    ELSE LET h == Head(r)
             k == h[2] - h[1] + 1
         IN  IF k <= n THEN <<h>> \o RunsTake(Tail(r), n - k)
             ELSE <<<<h[1], h[1] + n - 1>>>>

\* r[n:]
RECURSIVE RunsDrop(_, _)
RunsDrop(r, n) ==
    IF r = <<>> THEN <<>>
    ELSE IF n <= 0 THEN r
    ELSE LET h == Head(r)
             k == h[2] - h[1] + 1
         IN  IF k <= n THEN RunsDrop(Tail(r), n - k)
             ELSE <<<<h[1] + n, h[2]>>>> \o Tail(r)

\* np.concatenate of two sample lists: adjoining runs read as one
RunsCat(a, b) ==
    IF a = <<>> THEN b
    ELSE IF b = <<>> THEN a
    ELSE LET x == a[Len(a)]
             y == Head(b)
         IN  IF x[2] + 1 = y[1]
             THEN SubSeq(a, 1, Len(a) - 1) \o <<<<x[1], y[2]>>>> \o Tail(b)
             ELSE a \o b

\* audio.astype(dtype): the values survive a cast to the dtype they have;
\* a cast from float32 to int16 truncates, the samples are no longer the
\* ones that came in (written as the run <<0, -1 + count>> of position 0)
astype(audio, dtype) ==
    IF audio.dtype = dtype THEN audio
    ELSE IF dtype = "float32" THEN [audio EXCEPT !.dtype = dtype]
    ELSE [dtype |-> dtype,
          samples |-> IF audio.samples = <<>> THEN <<>>
                      ELSE <<<<0, RunsLen(audio.samples) - 1>>>>]

AB_init(class) == [dtype |-> AB_dtype(class), samples |-> <<>>]

AB_add(class, b, audio) ==
    LET a == IF class = "asr.ASRAudioBuffer" THEN audio
             ELSE astype(audio, AB_dtype(class))
    IN  [b EXCEPT !.samples = RunsCat(@, a.samples)]

\* get_chunks draining only while more than one chunk's worth is buffered
RECURSIVE AB_get_chunks_strict(_, _, _)
AB_get_chunks_strict(class, b, chunks) ==
    IF RunsLen(b.samples) > AB_target(class)
    THEN AB_get_chunks_strict(class,
             [b EXCEPT !.samples = RunsDrop(@, AB_target(class))],
             Append(chunks, RunsTake(b.samples, AB_target(class))))
    ELSE <<b, chunks>>

\* get_chunks: <<buffer afterwards, chunks returned>>
RECURSIVE AB_get_chunks(_, _, _)
AB_get_chunks(class, b, chunks) ==
    IF RunsLen(b.samples) >= AB_target(class)
    THEN AB_get_chunks(class,
             [b EXCEPT !.samples = RunsDrop(@, AB_target(class))],
             Append(chunks, RunsTake(b.samples, AB_target(class))))
    ELSE <<b, chunks>>

AB_clear(class, b) == AB_init(class)

----------------------------------------------------------------------------
(* services/kws/streaming.py: StreamingKWSService.  _buffer is the list   *)
(* of the lengths of the buffered chunks.                                  *)

\* int(1.5 * 16000)
max_buffer_samples == 24000
\* 16000 * 0.05, below which the model is not asked
min_detect_samples == 800

KWS_init ==
    [buffer |-> <<>>, total_samples |-> 0,
     is_keyword_detected |-> FALSE]

KWS_reset(k) == KWS_init

\* _trim_buffer dropping chunks without counting them out
RECURSIVE KWS_trim_buffer_uncounted(_)
KWS_trim_buffer_uncounted(k) ==
    IF k.total_samples > max_buffer_samples /\ k.buffer # <<>>
    THEN KWS_trim_buffer_uncounted([k EXCEPT !.buffer = Tail(@)])
    ELSE k

\* _trim_buffer
RECURSIVE KWS_trim_buffer(_)
KWS_trim_buffer(k) ==
    IF k.total_samples > max_buffer_samples /\ k.buffer # <<>>
    THEN KWS_trim_buffer([k EXCEPT
             !.buffer = Tail(@),
             !.total_samples = @ - Head(k.buffer)])
    ELSE k

\* detect_keyword_stream: <<service afterwards, value returned, model
\* calls, exception>>.  dtype is the chunk's dtype, n its length, answer
\* what model.detect_keyword does when asked: "keyword", "none", "raises".
KWS_detect_keyword_stream(k, dtype, n, answer) ==
    IF k.is_keyword_detected THEN <<k, TRUE, <<>>, "">>
    ELSE IF dtype \notin {"float32", "int16"}
    THEN <<k, FALSE, <<>>, "ValueError">>
    ELSE
        LET k1 == KWS_trim_buffer([k EXCEPT
                      !.buffer = Append(@, n),
                      !.total_samples = @ + n])
        IN  IF k1.buffer = <<>> \/ k1.total_samples < min_detect_samples
            THEN <<k1, FALSE, <<>>, "">>
            ELSE IF answer = "keyword"
            THEN <<[k1 EXCEPT !.is_keyword_detected = TRUE], TRUE,
                   <<"detect_keyword">>, "">>
            ELSE <<k1, FALSE, <<"detect_keyword">>, "">>

----------------------------------------------------------------------------

Components ==
    {"StateMachine", "VADSession", "VADStateMachine", "StreamingVADService"}

\* the driver before its first input: pc is its position ("free" when it
\* follows no script), mark the moment of its last scripted input, input
\* what it last fed in (the boundaries it made the VAD model return, the
\* argument of a function), out a result it kept, before the controller's
\* fields as they were when the last operation was called, calls and sent
\* what the session emitted over the scripted run
Run0(pc) ==
    [pc |-> pc, mark |-> None, input |-> <<>>, out |-> <<>>,
     before |-> <<>>, calls |-> <<>>, sent |-> <<>>]

\* every variable but comp and run right after construction
Fresh ==
    /\ now = Horizon * Quantum
    /\ sm = SM_init
    /\ eh = EH_init
    /\ vs = VS_init
    /\ vsm = VSM_init
    /\ svc = SVC_init
    /\ ws = WS_init
    /\ ab = AB_init("event_handler.ASRAudioBuffer")
    /\ kws = KWS_init
    /\ calls = <<>>
    /\ sent = <<>>
    /\ err = ""
    /\ ret = <<>>
    /\ op = "init"

Init ==
    /\ comp \in Components
    /\ run = Run0("free")
    /\ Fresh

Next ==
    \/ TimePasses
    \/ SM_Update
    \/ SM_Tick
    \/ SM_AddAudio
    \/ SM_Interrupt
    \/ SM_Reset
    \/ VS_AddAudio
    \/ VS_Update
    \/ VS_Interrupt
    \/ VS_Reset
    \/ VSM_AddAudio
    \/ VSM_Segments
    \/ VSM_Wakeup
    \/ VSM_Reset
    \/ SVC_Process
    \/ SVC_Finish
    \/ SVC_Reset

Spec == Init /\ [][Next]_vars

\* the same sessions with the transport also driving the EventHandler
NextHandler ==
    \/ Next
    \/ EH_VoiceActive
    \/ EH_SetBotSpeaking

SpecHandler == Init /\ [][NextHandler]_vars

----------------------------------------------------------------------------
\* Scripted runs of a StateMachine session. The driver feeds the inputs of
\* the script in order; time passes freely between them; run.calls and
\* run.sent collect what the session emitted over the whole run.

\* the driver after an operation that left world w: at position pc, its last
\* scripted boundary batch input fed at moment mark, the emitted events
\* appended
Observe(w, pc, mark, input) ==
    [run EXCEPT !.pc = pc, !.mark = mark, !.input = input,
                !.calls = @ \o w.calls, !.sent = @ \o w.sent]

\* the number of entries of q whose head is name
RECURSIVE Count(_, _)
Count(q, name) ==
    IF q = <<>> THEN 0
    ELSE (IF Head(q)[1] = name THEN 1 ELSE 0) + Count(Tail(q), name)

\* one scripted operation of the StateMachine session
Step(w, name, pc, mark, input) ==
    /\ Commit(w, name)
    /\ run' = Observe(w, pc, mark, input)

Opens == {<<100, -1>>, <<500, -1>>}
Closes == {<<-1, 600>>, <<-1, 3000>>}

\* Idle session, one batch holding one open boundary
C1_Open ==
    /\ run.pc = "c1_idle"
    /\ \E seg \in Opens :
         Step(update_vad_result(World(sm, eh), <<seg>>, now),
              "update_vad_result", "c1_opened", now, <<seg>>)

\* Tick at least start_debounce_ms after the open boundary
C1_TickStart ==
    /\ run.pc = "c1_opened"
    /\ now - run.mark >= start_debounce_ms
    /\ Step(check_silence_timeout(World(sm, eh), now),
            "check_silence_timeout", "c1_started", run.mark, run.input)

\* one batch holding one close boundary
C1_Close ==
    /\ run.pc = "c1_started"
    /\ \E seg \in Closes :
         Step(update_vad_result(World(sm, eh), <<seg>>, now),
              "update_vad_result", "c1_closed", now, run.input \o <<seg>>)

\* Tick at least end_debounce_ms after the close boundary
C1_TickEnd ==
    /\ run.pc = "c1_closed"
    /\ now - run.mark >= end_debounce_ms
    /\ Step(check_silence_timeout(World(sm, eh), now),
            "check_silence_timeout", "c1_done", run.mark, run.input)

InitC1 ==
    /\ comp = "StateMachine"
    /\ run = Run0("c1_idle")
    /\ Fresh

NextC1 ==
    \/ TimePasses
    \/ C1_Open
    \/ C1_TickStart
    \/ C1_Close
    \/ C1_TickEnd

SpecC1 == InitC1 /\ [][NextC1]_vars

\* C1: in the scripted run open boundary, Tick after the start debounce,
\* close boundary, Tick after the end debounce, the start Tick fires
\* on_voice_start, the end Tick fires on_voice_end, the whole run emits
\* exactly one voice start and then one voice end, and it ends in Idle.
C1_OneSegment ==
    /\ run.pc \in {"c1_idle", "c1_opened"} => run.calls = <<>>
    /\ run.pc = "c1_started" =>
         /\ op = "check_silence_timeout" => calls = << <<"on_voice_start">> >>
         /\ sm.state = SPEAKING
    /\ run.pc \in {"c1_started", "c1_closed"} =>
         /\ run.calls = << <<"on_voice_start">> >>
         /\ run.sent = <<"voice_start">>
    /\ run.pc = "c1_done" =>
         /\ op = "check_silence_timeout" => calls = << <<"on_voice_end">> >>
         /\ run.calls = << <<"on_voice_start">>, <<"on_voice_end">> >>
         /\ run.sent = <<"voice_start", "voice_end">>
         /\ sm.state = IDLE

C1_Witness ==
    /\ run.pc = "c1_done"
    /\ op = "check_silence_timeout"
    /\ run.calls = << <<"on_voice_start">>, <<"on_voice_end">> >>

----------------------------------------------------------------------------
\* A StateMachine session whose input stops. While run.pc = "c2_input" the
\* transport feeds boundary batches and audio chunks; after C2_GoQuiet none
\* arrives any more, Tick keeps being called and time keeps passing.

C2_Input ==
    /\ run.pc = "c2_input"
    /\ (SM_Update \/ SM_AddAudio)

C2_GoQuiet ==
    /\ comp = "StateMachine"
    /\ run.pc = "c2_input"
    /\ run' = [run EXCEPT !.pc = "c2_quiet"]
    /\ UNCHANGED <<comp, now, sm, eh, calls, sent, vs, vsm, svc, ws, ab, kws, err, ret, op>>

\* Tick; the events emitted since the input stopped are collected
C2_Tick ==
    /\ comp = "StateMachine"
    /\ LET w == check_silence_timeout(World(sm, eh), now) IN
         /\ Commit(w, "check_silence_timeout")
         /\ run' = IF run.pc = "c2_quiet"
                     THEN [run EXCEPT !.calls = @ \o w.calls]
                     ELSE run

InitC2 ==
    /\ comp = "StateMachine"
    /\ run = Run0("c2_input")
    /\ Fresh

NextC2 ==
    \/ TimePasses
    \/ C2_Input
    \/ C2_GoQuiet
    \/ C2_Tick

\* Tick is called again and again and the clock advances
SpecC2 ==
    InitC2 /\ [][NextC2]_vars /\ WF_vars(TimePasses) /\ WF_vars(C2_Tick)

\* C2: once the session is Speaking (its voice start announced) and no
\* boundary batch and no audio chunk arrives any more, repeated Ticks
\* eventually emit on_voice_end exactly once and bring the state back to
\* Idle.
C2_SilenceEndsSpeech ==
    (/\ run.pc = "c2_quiet"
     /\ sm.state = SPEAKING
     /\ sm.current_speech_start_ms # None)
        ~> (sm.state = IDLE /\ Count(run.calls, "on_voice_end") = 1)

----------------------------------------------------------------------------
\* C3: an interrupt that arrives while the session is speaking
\* (StateMachine.interrupt with its EventHandler, or
\* VADStateMachine.trigger_kws_wakeup) fires the interrupt callback, leaves
\* the buffered audio cleared, fires no voice-end callback (on_voice_end /
\* on_asr_end), and leaves nothing behind that could end the interrupted
\* segment later (the controller is Idle with no pending end).
C3_InterruptDiscards ==
    /\ (/\ comp = "StateMachine"
        /\ op = "interrupt"
        /\ Count(calls, "on_vad_interrupt") > 0) =>
         /\ eh.buf = 0
         /\ Count(calls, "on_voice_end") = 0
         /\ sm.state = IDLE
         /\ sm.pending_end_time_ms = None
    /\ (op = "trigger_kws_wakeup" /\ Count(calls, "on_interrupt") > 0) =>
         /\ vsm.audio_buffer.buffer = 0
         /\ Count(calls, "on_asr_end") = 0
         /\ vsm.state = IDLE

----------------------------------------------------------------------------
\* A StateMachine session fed open, close, open again: the second open
\* boundary arrives less than continuation_window_ms after the close. Tick
\* is called at any moment of the run.

C4_Open ==
    /\ run.pc = "c4_idle"
    /\ \E seg \in Opens :
         Step(update_vad_result(World(sm, eh), <<seg>>, now),
              "update_vad_result", "c4_opened", now, <<seg>>)

\* Tick; the Tick that confirms the open boundary moves the script on
C4_Tick ==
    /\ run.pc \in {"c4_idle", "c4_opened", "c4_started", "c4_closed",
                    "c4_reopened"}
    /\ LET w == check_silence_timeout(World(sm, eh), now) IN
         Step(w, "check_silence_timeout",
              IF run.pc = "c4_opened" /\ Count(w.calls, "on_voice_start") > 0
                THEN "c4_started" ELSE run.pc,
              run.mark, run.input)

C4_Close ==
    /\ run.pc = "c4_started"
    /\ \E seg \in Closes :
         Step(update_vad_result(World(sm, eh), <<seg>>, now),
              "update_vad_result", "c4_closed", now, run.input \o <<seg>>)

C4_Reopen ==
    /\ run.pc = "c4_closed"
    /\ now - run.mark < continuation_window_ms
    /\ \E seg \in Opens :
         Step(update_vad_result(World(sm, eh), <<seg>>, now),
              "update_vad_result", "c4_reopened", now, run.input \o <<seg>>)

InitC4 ==
    /\ comp = "StateMachine"
    /\ run = Run0("c4_idle")
    /\ Fresh

NextC4 ==
    \/ TimePasses
    \/ C4_Open
    \/ C4_Tick
    \/ C4_Close
    \/ C4_Reopen

SpecC4 == InitC4 /\ [][NextC4]_vars

\* C4: when a confirmed open boundary is followed by a close boundary and
\* then by a second open boundary less than continuation_window_ms after
\* the close, with Ticks anywhere in between, the whole run emits at most
\* one voice start.
C4_OneVoiceStart == Count(run.calls, "on_voice_start") <= 1

----------------------------------------------------------------------------
\* the calls of this operation to the callback name
CallsTo(name) == {i \in 1..Len(calls) : calls[i][1] = name}

\* C5: a candidate segment shorter than min_speech_duration_ms (close minus
\* start) never causes a voice end: every interval VADSession hands to
\* on_voice_end is at least min_speech_duration_ms long.
C5_NoShortVoiceEnd ==
    comp = "VADSession" =>
        \A i \in CallsTo("on_voice_end") :
            calls[i][4] - calls[i][3] >= min_speech_duration_ms

C7_StartBeforeEnd ==
    /\ op = "finish" => \A i \in 1..Len(ret) : ret[i][1] < ret[i][2]
    /\ comp = "VADSession" =>
         \A i \in CallsTo("on_voice_end") : calls[i][3] < calls[i][4]

C7_Witness ==
    /\ op = "finish"
    /\ ret # <<>>
    /\ \E i \in 1..Len(svc.accumulated_raw_segments) :
         svc.accumulated_raw_segments[i] = <<150, 100>>

\* C10: a close-only boundary (-1,e) met while an open boundary (s,-1) is
\* pending is paired with it: the raw stream [[s,-1],[-1,e]] with nothing
\* more at the end finalizes to the single segment [s,e].
C10_ClosePairsWithOpen ==
    (/\ op = "finish"
     /\ err = ""
     /\ run.input = <<>>
     /\ svc.accumulated_raw_segments = << <<100, -1>>, <<-1, 150>> >>)
        => ret = << <<100, 150>> >>

----------------------------------------------------------------------------
\* _merge_segments as a function: the driver picks a list of segments,
\* merges it, and merges the result again.

MaxSegs == 3

MergeItems ==
    { <<0, 50>>, <<0, 150>>, <<0, 300>>, <<50, 100>>, <<100, 150>>,
      <<100, 200>>, <<120, 130>>, <<150, 200>>, <<200, 250>>, <<250, 300>>,
      <<150, 100>>, <<100, 100>>, <<-1, 50>> }

MergeInputs == Lists(MergeItems, MaxSegs)

\* merged = _merge_segments(L)
Merge_Once ==
    /\ run.pc = "merge_input"
    /\ ret' = merge_segments(run.input)
    /\ run' = [run EXCEPT !.pc = "merged"]
    /\ op' = "_merge_segments"
    /\ UNCHANGED <<comp, now, sm, eh, calls, sent, vs, vsm, svc, ws, ab, kws, err>>

\* _merge_segments(merged), the first result kept in run.out
Merge_Again ==
    /\ run.pc = "merged"
    /\ ret' = merge_segments(ret)
    /\ run' = [run EXCEPT !.pc = "remerged", !.out = ret]
    /\ op' = "_merge_segments"
    /\ UNCHANGED <<comp, now, sm, eh, calls, sent, vs, vsm, svc, ws, ab, kws, err>>

InitMerge ==
    /\ comp = "StreamingVADService"
    /\ \E L \in MergeInputs : run = [Run0("merge_input") EXCEPT !.input = L]
    /\ Fresh

NextMerge ==
    \/ Merge_Once
    \/ Merge_Again

SpecMerge == InitMerge /\ [][NextMerge]_vars

\* C8: _merge_segments is idempotent: merging a merged list again returns
\* the same list.
C8_MergeIdempotent == run.pc = "remerged" => ret = run.out

C8_Witness ==
    /\ run.pc = "remerged"
    /\ Len(run.input) = MaxSegs
    /\ Len(run.out) < Len(valid_segs(run.input))
    /\ ret = run.out

\* the valid segments of list L that lie inside segment o
Inside(L, o) ==
    {i \in 1..Len(L) : /\ L[i][1] < L[i][2]
                        /\ o[1] <= L[i][1]
                        /\ L[i][2] <= o[2]}

\* C9: the output of _merge_segments is sorted by start with consecutive
\* segments more than merge_gap_ms apart (later start > earlier end +
\* merge_gap_ms); every valid input segment lies inside an output segment;
\* each output segment is the union interval of the inputs merged into it:
\* it starts at the least start and ends at the greatest end of the inputs
\* inside it, and any stretch of it that no input covers is a bridged gap
\* of at most merge_gap_ms.
C9_MergedIntervals ==
    run.pc = "merged" =>
        LET L == run.input IN
        /\ \A i \in 1..Len(ret) - 1 :
             ret[i + 1][1] > ret[i][2] + merge_gap_ms
        /\ \A i \in 1..Len(L) :
             L[i][1] < L[i][2] => \E k \in 1..Len(ret) : i \in Inside(L, ret[k])
        /\ \A k \in 1..Len(ret) :
             LET o == ret[k]
                 in == Inside(L, o)
             IN  /\ o[1] < o[2]
                 /\ \E i \in in : L[i][1] = o[1]
                 /\ \E i \in in : L[i][2] = o[2]
                 /\ \A i \in in :
                      L[i][2] < o[2] =>
                          \E j \in in : /\ L[j][1] <= L[i][2] + merge_gap_ms
                                         /\ L[j][2] > L[i][2]

C9_Witness ==
    /\ run.pc = "merged"
    /\ run.input = << <<250, 300>>, <<0, 50>>, <<100, 150>> >>
    /\ ret = << <<0, 150>>, <<250, 300>> >>

----------------------------------------------------------------------------
\* The same sessions with a driver that keeps, for every operation it calls,
\* the argument it passed (run.input) and the controller's fields as they
\* were at the call (run.before).

\* the driver of a logged session delivers batches of at most LogBatch
\* boundaries
LogBatch == 1

Log(input, before) == run' = [run EXCEPT !.input = input, !.before = before]

Log_TimePasses ==
    /\ comp = "StateMachine"
    /\ now' = now
    /\ sm' = OlderSM(sm)
    /\ Log(<<>>, [sm |-> sm, eh |-> eh])
    /\ op' = "time"
    /\ calls' = <<>> /\ sent' = <<>> /\ err' = "" /\ ret' = <<>>
    /\ UNCHANGED <<comp, eh, vs, vsm, svc, ws, ab, kws>>

Log_SM_Update ==
    /\ comp = "StateMachine"
    /\ \E segs \in Lists(SM_Items, LogBatch) :
         /\ Commit(update_vad_result(World(sm, eh), segs, now), "update_vad_result")
         /\ Log(segs, [sm |-> sm, eh |-> eh])

Log_SM_Tick ==
    /\ comp = "StateMachine"
    /\ Commit(check_silence_timeout(World(sm, eh), now), "check_silence_timeout")
    /\ Log(<<>>, [sm |-> sm, eh |-> eh])

Log_SM_AddAudio ==
    /\ comp = "StateMachine"
    /\ \E dtype \in Dtypes :
         /\ Commit(add_audio_chunk(World(sm, eh), dtype, now), "add_audio_chunk")
         /\ Log(<<dtype>>, [sm |-> sm, eh |-> eh])

Log_SM_Interrupt ==
    /\ comp = "StateMachine"
    /\ Commit(interrupt(World(sm, eh)), "interrupt")
    /\ Log(<<>>, [sm |-> sm, eh |-> eh])

Log_SM_Reset ==
    /\ comp = "StateMachine"
    /\ Commit(reset(World(sm, eh)), "reset")
    /\ Log(<<>>, [sm |-> sm, eh |-> eh])

Log_VS_AddAudio ==
    /\ comp = "VADSession"
    /\ \E dtype \in Dtypes, n \in VS_ChunkLens :
         /\ vs.total_samples + n <= MaxSamples
         /\ VS_Commit(VS_add_audio_chunk(VS_World(vs), dtype, n), "add_audio_chunk")
         /\ Log(<<dtype, n>>, vs)

Log_VS_Update ==
    /\ comp = "VADSession"
    /\ \E segs \in Lists(VS_Items, LogBatch) :
         LET x == VS_update_vad_result(VS_World(vs), segs) IN
         /\ Len(x.vs.pending_segments) <= MaxPending
         /\ VS_Commit(x, "update_vad_result")
         /\ Log(segs, vs)

Log_VS_Interrupt ==
    /\ comp = "VADSession"
    /\ VS_Commit(VS_interrupt(VS_World(vs)), "interrupt")
    /\ Log(<<>>, vs)

Log_VS_Reset ==
    /\ comp = "VADSession"
    /\ VS_Commit(VS_reset(VS_World(vs)), "reset")
    /\ Log(<<>>, vs)

Log_VSM_AddAudio ==
    /\ comp = "VADStateMachine"
    /\ vsm.audio_buffer.total_pushed < MaxPushed
    /\ \E dtype \in Dtypes, n \in VSM_ChunkLens :
         /\ VSM_Commit(VSM_add_audio_chunk(VSM_World(vsm), dtype, n), "add_audio_chunk")
         /\ Log(<<dtype, n>>, vsm)

Log_VSM_Segments ==
    /\ comp = "VADStateMachine"
    /\ \E segs \in Lists(VSM_Items, LogBatch) :
         /\ VSM_Commit(VSM_on_vad_segments(VSM_World(vsm), segs), "on_vad_segments")
         /\ Log(segs, vsm)

Log_VSM_Wakeup ==
    /\ comp = "VADStateMachine"
    /\ VSM_Commit(VSM_trigger_kws_wakeup(VSM_World(vsm)), "trigger_kws_wakeup")
    /\ Log(<<>>, vsm)

Log_VSM_Reset ==
    /\ comp = "VADStateMachine"
    /\ VSM_Commit(VSM_reset(VSM_World(vsm)), "reset")
    /\ Log(<<>>, vsm)

Log_SVC_Process ==
    /\ comp = "StreamingVADService"
    /\ Len(svc.accumulated_raw_segments) < MaxRaw
    /\ \E dtype \in {"int16", "float32"}, n \in SVC_ChunkLens, out \in SVC_Outputs :
         /\ svc.total_samples + n <= MaxTotal
         /\ SVC_Commit(SVC_process(svc, dtype, n, out), "process")
         /\ Log(out, svc)

Log_SVC_Finish ==
    /\ comp = "StreamingVADService"
    /\ \E out \in SVC_Outputs :
         /\ SVC_Commit(SVC_finish(svc, out), "finish")
         /\ Log(out, svc)

Log_SVC_Reset ==
    /\ comp = "StreamingVADService"
    /\ SVC_Commit(<<SVC_init, <<>>, "">>, "reset")
    /\ Log(<<>>, svc)

NextLog ==
    \/ Log_TimePasses
    \/ Log_SM_Update
    \/ Log_SM_Tick
    \/ Log_SM_AddAudio
    \/ Log_SM_Interrupt
    \/ Log_SM_Reset
    \/ Log_VS_AddAudio
    \/ Log_VS_Update
    \/ Log_VS_Interrupt
    \/ Log_VS_Reset
    \/ Log_VSM_AddAudio
    \/ Log_VSM_Segments
    \/ Log_VSM_Wakeup
    \/ Log_VSM_Reset
    \/ Log_SVC_Process
    \/ Log_SVC_Finish
    \/ Log_SVC_Reset

SpecLog == Init /\ [][NextLog]_vars

----------------------------------------------------------------------------
\* the part of C11 that concerns StreamingVADService: the raw stream
\* [[-1,e]] alone finalizes to [[0,e]]
CloseOnlyResolvedFromZero ==
    (/\ comp = "StreamingVADService"
     /\ op = "finish"
     /\ err = ""
     /\ run.input = <<>>
     /\ svc.accumulated_raw_segments = << <<-1, 150>> >>)
        => ret = << <<0, 150>> >>

\* C11: a close-only boundary (-1,e) met while no open boundary is pending
\* is emitted as the closed segment (0,e) and not dropped: VADSession hands
\* (0, e) to on_voice_end, StreamingVADService finalizes [[-1,e]] to [[0,e]].
C11_CloseOnlyFromZero ==
    /\ CloseOnlyResolvedFromZero
    /\ (/\ comp = "VADSession"
        /\ op = "update_vad_result"
        /\ run.input = << <<-1, 200>> >>
        /\ LastOpen(run.before.pending_segments) = 0)
            => \E i \in CallsTo("on_voice_end") :
                   calls[i][3] = 0 /\ calls[i][4] = 200

----------------------------------------------------------------------------
\* the raw boundaries finish() resolves: the accumulated ones and the valid
\* ones of the model's final output
AllRaw == svc.accumulated_raw_segments \o valid_segments(run.input)

\* C12 as stated: process() returns raw boundaries only, and at finish()
\* every open boundary (s,-1) of the stream is closed with the total
\* duration computed from the samples processed, so the result holds a
\* segment covering (s, total_duration_ms).
C12_EveryOpenClosedAtFinish ==
    /\ (op = "process" /\ err = "") =>
         \A i \in 1..Len(ret) : \E j \in 1..Len(run.input) : run.input[j] = ret[i]
    /\ (op = "finish" /\ svc.total_samples > 0) =>
         \A j \in 1..Len(AllRaw) :
             IsOpen(AllRaw[j]) =>
                 \E k \in 1..Len(ret) :
                     /\ ret[k][1] <= AllRaw[j][1]
                     /\ ret[k][2] >= SVC_get_total_duration_ms(svc)

\* C12, amended: process() returns raw boundaries only, never a segment it
\* closed itself; at finish() every open boundary (s,-1) with
\* s < total_duration_ms is closed at total_duration_ms = total_samples / 16
\* and the result holds a segment covering (s, total_duration_ms), which is
\* exactly [[s, total_duration_ms]] when it is the only boundary; an open
\* boundary with s >= total_duration_ms is dropped.
C12_OpenClosedAtFinish ==
    /\ (op = "process" /\ err = "") =>
         \A i \in 1..Len(ret) : \E j \in 1..Len(run.input) : run.input[j] = ret[i]
    /\ (op = "finish" /\ svc.total_samples > 0) =>
         LET total == SVC_get_total_duration_ms(svc) IN
         /\ \A j \in 1..Len(AllRaw) :
              (IsOpen(AllRaw[j]) /\ AllRaw[j][1] < total) =>
                  \E k \in 1..Len(ret) :
                      ret[k][1] <= AllRaw[j][1] /\ ret[k][2] >= total
         /\ (Len(AllRaw) = 1 /\ IsOpen(AllRaw[1])) =>
              ret = IF AllRaw[1][1] < total
                      THEN << <<AllRaw[1][1], total>> >>
                      ELSE <<>>

C12_Witness ==
    /\ op = "finish"
    /\ svc.accumulated_raw_segments = << <<100, -1>> >>
    /\ run.input = <<>>
    /\ ret = << <<100, 200>> >>

----------------------------------------------------------------------------
\* C13: an interrupt request in any state of the controller (Idle, pending
\* start, Speaking, pending end) leaves it Idle with nothing pending, fires
\* the interrupt callback, fires no voice-end callback and leaves no
\* buffered audio (StateMachine.interrupt, VADSession.interrupt,
\* VADStateMachine.trigger_kws_wakeup).
C13_InterruptInAnyState ==
    /\ (comp = "StateMachine" /\ op = "interrupt") =>
         /\ sm.state = IDLE
         /\ sm.pending_start_time_ms = None
         /\ sm.pending_end_time_ms = None
         /\ Count(calls, "on_vad_interrupt") = 1
         /\ Count(calls, "on_voice_end") = 0
    /\ (comp = "VADSession" /\ op = "interrupt") =>
         /\ vs.state = IDLE
         /\ vs.audio_buffer = <<>>
         /\ Count(calls, "on_vad_interrupt") = 1
         /\ Count(calls, "on_voice_end") = 0
    /\ (comp = "VADStateMachine" /\ op = "trigger_kws_wakeup") =>
         /\ vsm.state = IDLE
         /\ vsm.audio_buffer.buffer = 0
         /\ Count(calls, "on_interrupt") = 1
         /\ Count(calls, "on_asr_end") = 0

\* what does hold of StateMachine.interrupt and VADSession.interrupt in any
\* state: the controller is left Idle with nothing pending and no voice-end
\* callback is fired
InterruptLeavesIdle ==
    /\ (comp = "StateMachine" /\ op = "interrupt") =>
         /\ sm.state = IDLE
         /\ sm.pending_start_time_ms = None
         /\ sm.pending_end_time_ms = None
         /\ Count(calls, "on_voice_end") = 0
    /\ (comp = "VADSession" /\ op = "interrupt") =>
         /\ vs.state = IDLE
         /\ Count(calls, "on_voice_end") = 0

----------------------------------------------------------------------------
\* C14: in the run open / close / open again within continuation_window_ms,
\* when the second open boundary finds the machine Speaking with the end
\* debounce of the close still pending, the pending end is cancelled and the
\* machine stays Speaking, so that no later Tick emits voice_end for that
\* close; on_voice_start is not fired again.
C14_ContinuationCancelsEnd ==
    (/\ run.pc = "c4_reopened"
     /\ op = "update_vad_result"
     /\ sm.state = SPEAKING)
        => /\ sm.pending_end_time_ms = None
           /\ Count(run.calls, "on_voice_start") = 1

----------------------------------------------------------------------------
\* the pending start survives the operation unchanged unless it was
\* confirmed or cancelled: what does hold of the start debounce
PendingStartKept ==
    (/\ comp = "StateMachine"
     /\ op \in {"update_vad_result", "check_silence_timeout", "add_audio_chunk"}
     /\ run.before.sm.pending_start_time_ms # None
     /\ sm.pending_start_time_ms # None)
        => sm.pending_start_time_ms = run.before.sm.pending_start_time_ms

\* C15: arming a debounce timer that is already armed is a no-op: an
\* operation of StateMachine that finds the pending start (resp. pending
\* end) timestamp set and leaves it set leaves it at the same value, so the
\* debounce is measured from the first observation.
C15_RearmIsNoOp ==
    /\ PendingStartKept
    /\ (/\ comp = "StateMachine"
        /\ op \in {"update_vad_result", "check_silence_timeout", "add_audio_chunk"}
        /\ run.before.sm.pending_end_time_ms # None
        /\ sm.pending_end_time_ms # None)
           => sm.pending_end_time_ms = run.before.sm.pending_end_time_ms

----------------------------------------------------------------------------
\* the part of C16 that concerns VADSession: a close-only boundary (-1,e)
\* that ends the segment opened by the pending boundary (s,-1) is reported
\* as on_voice_end(buffered audio, s, e)
SessionReportsInterval ==
    (/\ comp = "VADSession"
     /\ op = "update_vad_result"
     /\ run.input = << <<-1, 200>> >>
     /\ run.before.state = SPEAKING
     /\ LastOpen(run.before.pending_segments) # 0)
        => LET s == run.before.pending_segments[
                        LastOpen(run.before.pending_segments)][1]
           IN  s < 200 =>
                 calls[1] = <<"on_voice_end", run.before.audio_buffer, s, 200>>

\* C16: the voice end carries the buffered audio and the interval
\* [start_ms of the open boundary, end_ms of the close boundary]: in the
\* scripted run open (s,-1), Tick, close (-1,e), Tick of StateMachine the
\* end Tick calls on_voice_end(audio, s, e).
C16_VoiceEndCarriesInterval ==
    (run.pc = "c1_done" /\ op = "check_silence_timeout") =>
        \E i \in CallsTo("on_voice_end") :
            /\ Len(calls[i]) = 4
            /\ calls[i][3] = run.input[1][1]
            /\ calls[i][4] = run.input[2][2]

----------------------------------------------------------------------------
\* C17: while the session is Speaking, every add_audio_chunk that accepts a
\* chunk calls on_voice_active once, within that operation (StateMachine and
\* VADSession; add_audio_chunk does not change the state, so the state after
\* the call is the state the chunk arrived in).
C17_ActivePerChunk ==
    /\ (/\ comp = "StateMachine"
        /\ op = "add_audio_chunk"
        /\ err = ""
        /\ sm.state = SPEAKING) => Count(calls, "on_voice_active") = 1
    /\ (/\ comp = "VADSession"
        /\ op = "add_audio_chunk"
        /\ err = ""
        /\ vs.state = SPEAKING) => Count(calls, "on_voice_active") = 1

----------------------------------------------------------------------------
\* what every add_audio_chunk does with the encoding of the chunk, apart from
\* which encodings SlidingAudioBuffer.push accepts: StateMachine and
\* VADSession accept float32 and int16, and a rejected chunk raises
\* ValueError and leaves the whole object as it was
PushContract(accepted) ==
    op = "add_audio_chunk" =>
      /\ comp = "StateMachine" =>
            IF run.input[1] \in {"float32", "int16"}
              THEN err = ""
              ELSE err = "ValueError" /\ sm = run.before.sm /\ eh = run.before.eh
      /\ comp = "VADSession" =>
            IF run.input[1] \in {"float32", "int16"}
              THEN /\ err = ""
                   /\ vs.audio_buffer = Append(run.before.audio_buffer, run.input[2])
                   /\ vs.total_samples = run.before.total_samples + run.input[2]
              ELSE err = "ValueError" /\ vs = run.before
      /\ comp = "VADStateMachine" =>
            IF run.input[1] \in accepted
              THEN /\ err = ""
                   /\ vsm.audio_buffer.total_pushed
                        = run.before.audio_buffer.total_pushed + run.input[2]
              ELSE err = "ValueError" /\ vsm = run.before

C18_WitnessSession ==
    /\ comp = "VADSession"
    /\ op = "add_audio_chunk"
    /\ run.input[1] = "float64"
    /\ err = "ValueError"
    /\ vs.state = SPEAKING
    /\ vs.total_samples > 0

----------------------------------------------------------------------------
\* what does hold: an operation of VADSession or VADStateMachine.on_vad_segments
\* that reported the end of a segment returns with its own buffer empty
ControllerBufferCleared ==
    /\ (comp = "VADSession" /\ Count(calls, "on_voice_end") > 0)
            => vs.audio_buffer = <<>> /\ vs.total_samples = 0
    /\ (comp = "VADStateMachine" /\ op = "on_vad_segments"
                                 /\ Count(calls, "on_asr_end") > 0)
            => vsm.audio_buffer = SAB_init

\* C19: when an operation has emitted voice_end, the audio accumulated for
\* the session is empty on return: the VADSession buffer, the VADStateMachine
\* buffer and the EventHandler's audio_buffer.
C19_BuffersEmptyAfterVoiceEnd ==
    /\ ControllerBufferCleared
    /\ (comp = "StateMachine" /\ Count(calls, "on_voice_end") > 0) => eh.buf = 0

----------------------------------------------------------------------------
RECURSIVE Total(_)
\* the number of samples in a list of chunks
Total(chunks) ==
    IF chunks = <<>> THEN 0 ELSE Head(chunks) + Total(Tail(chunks))

\* what does hold: the VADSession buffer holds every chunk pushed since the
\* last clear, and the audio given to on_voice_end is that whole buffer
SessionBufferUncapped ==
    comp = "VADSession" =>
      /\ Total(vs.audio_buffer) = vs.total_samples
      /\ (op = "update_vad_result" /\ Count(calls, "on_voice_end") > 0)
            => Total(calls[CHOOSE i \in CallsTo("on_voice_end") :
                             \A j \in CallsTo("on_voice_end") : i <= j][2])
                 = run.before.total_samples

\* C20: the session audio buffer has no size cap: the samples stored equal
\* the samples pushed since the last clear, and the audio handed to the
\* end-of-speech callback starts at the first sample pushed since the last
\* clear (VADSession list buffer and the SlidingAudioBuffer of
\* VADStateMachine).
C20_NoSizeCap ==
    /\ comp = "VADSession" => Total(vs.audio_buffer) = vs.total_samples
    /\ comp = "VADStateMachine" =>
          /\ vsm.audio_buffer.buffer = vsm.audio_buffer.total_pushed
          /\ \A i \in CallsTo("on_asr_end") : calls[i][2][1] = 0

----------------------------------------------------------------------------
\* Sample counting: the logged operations of VADSession and VADStateMachine
\* with chunk lengths that are not whole milliseconds of audio.
Count_VS_ChunkLens == {1600, 1608}
Count_VSM_ChunkLens == {32008, 48000}

Count_VS_AddAudio ==
    /\ comp = "VADSession"
    /\ \E dtype \in Dtypes, n \in Count_VS_ChunkLens :
         /\ vs.total_samples + n <= MaxSamples
         /\ VS_Commit(VS_add_audio_chunk(VS_World(vs), dtype, n), "add_audio_chunk")
         /\ Log(<<dtype, n>>, vs)

Count_VSM_AddAudio ==
    /\ comp = "VADStateMachine"
    /\ vsm.audio_buffer.total_pushed < MaxPushed
    /\ \E dtype \in Dtypes, n \in Count_VSM_ChunkLens :
         /\ VSM_Commit(VSM_add_audio_chunk(VSM_World(vsm), dtype, n), "add_audio_chunk")
         /\ Log(<<dtype, n>>, vsm)

InitCount == Init /\ comp \in {"VADSession", "VADStateMachine"}

NextCount ==
    \/ Count_VS_AddAudio
    \/ Log_VS_Update
    \/ Log_VS_Interrupt
    \/ Log_VS_Reset
    \/ Count_VSM_AddAudio
    \/ Log_VSM_Segments
    \/ Log_VSM_Wakeup
    \/ Log_VSM_Reset

SpecCount == InitCount /\ [][NextCount]_vars

\* t is floor(samples * 1000 / sample_rate)
IsFloorMs(t, samples) ==
    t * sample_rate <= samples * 1000 /\ samples * 1000 < (t + 1) * sample_rate

\* C21: a push adds exactly len(chunk) to the total-sample counter; the
\* elapsed time is floor(total_samples * 1000 / sample_rate) ms, also as
\* handed to on_voice_active; the counter only decreases by becoming 0
\* together with an emptied buffer (VADSession and the SlidingAudioBuffer
\* of VADStateMachine).
C21_SampleCounter ==
    /\ (comp = "VADSession" /\ op # "init") =>
          /\ (op = "add_audio_chunk" /\ err = "")
                => vs.total_samples = run.before.total_samples + run.input[2]
          /\ \/ vs.total_samples >= run.before.total_samples
             \/ vs.total_samples = 0 /\ vs.audio_buffer = <<>>
          /\ IsFloorMs(VS_get_total_duration_ms(vs), vs.total_samples)
          /\ \A i \in CallsTo("on_voice_active") :
                IsFloorMs(calls[i][3], run.before.total_samples)
    /\ (comp = "VADStateMachine" /\ op # "init") =>
          /\ (op = "add_audio_chunk" /\ err = "")
                => vsm.audio_buffer.total_pushed
                     = run.before.audio_buffer.total_pushed + run.input[2]
          /\ \/ vsm.audio_buffer.total_pushed >= run.before.audio_buffer.total_pushed
             \/ vsm.audio_buffer = SAB_init
          /\ IsFloorMs(VSM_get_current_time_ms(vsm), vsm.audio_buffer.total_pushed)

\* a Speaking VADSession holding 1608 samples (100.5 ms) reported 100 ms to
\* on_voice_active
C21_Witness ==
    /\ comp = "VADSession"
    /\ op = "update_vad_result"
    /\ vs.total_samples = 1608
    /\ \E i \in CallsTo("on_voice_active") : calls[i][3] = 100

\* the sliding buffer counted a 32008-sample push after an earlier one
C21_WitnessSliding ==
    /\ comp = "VADStateMachine"
    /\ op = "add_audio_chunk"
    /\ run.input = <<"float32", 32008>>
    /\ run.before.audio_buffer.total_pushed = 48000
    /\ VSM_get_current_time_ms(vsm) = 5000

----------------------------------------------------------------------------
\* Malformed boundaries: batches that also carry items with a field that is
\* not a number, for StateMachine and VADStateMachine.
Mal_Items == { <<NonNumeric, NonNumeric>>, <<NonNumeric, -1>> }

Mal_SM_Update ==
    /\ comp = "StateMachine"
    /\ \E segs \in Lists(SM_Items \cup Mal_Items, MaxBatch) :
         /\ Commit(update_vad_result(World(sm, eh), segs, now), "update_vad_result")
         /\ Log(segs, [sm |-> sm, eh |-> eh])

Mal_VS_Update ==
    /\ comp = "VADSession"
    /\ \E segs \in VS_Batches :
         LET x == VS_update_vad_result(VS_World(vs), segs) IN
         /\ Len(x.vs.pending_segments) <= MaxPending
         /\ VS_Commit(x, "update_vad_result")
         /\ Log(segs, vs)

Mal_VSM_Segments ==
    /\ comp = "VADStateMachine"
    /\ \E segs \in Lists(VSM_Items \cup Mal_Items, MaxBatch) :
         /\ VSM_Commit(VSM_on_vad_segments(VSM_World(vsm), segs), "on_vad_segments")
         /\ Log(segs, vsm)

InitMalformed == Init /\ comp # "StreamingVADService"

NextMalformed ==
    \/ Log_TimePasses
    \/ Mal_SM_Update
    \/ Log_SM_Tick
    \/ Log_VS_AddAudio
    \/ Mal_VS_Update
    \/ Log_VSM_AddAudio
    \/ Mal_VSM_Segments

SpecMalformed == InitMalformed /\ [][NextMalformed]_vars

\* an item the claim calls malformed: wrong arity, a field that is not a
\* number, or (-1,-1)
Malformed(seg) ==
    \/ Len(seg) # 2
    \/ seg = <<-1, -1>>
    \/ seg[1] = NonNumeric
    \/ seg[2] = NonNumeric

\* the batch with its malformed items removed
Clean(segs) == SelectSeq(segs, LAMBDA seg : ~Malformed(seg))

\* the last batch call raised nothing and ended as the same call on the
\* cleaned batch would have
SameAsClean ==
    /\ err = ""
    /\ comp = "StateMachine" =>
          LET w == update_vad_result(World(run.before.sm, run.before.eh),
                                     Clean(run.input), now)
          IN  sm = w.sm /\ eh = w.eh /\ calls = w.calls /\ sent = w.sent
    /\ comp = "VADSession" =>
          LET x == VS_update_vad_result(VS_World(run.before), Clean(run.input))
          IN  vs = x.vs /\ calls = x.calls
    /\ comp = "VADStateMachine" =>
          LET x == VSM_on_vad_segments(VSM_World(run.before), Clean(run.input))
          IN  vsm = x.vsm /\ calls = x.calls

\* what does hold: items of wrong arity and (-1,-1) are dropped
ShapeMalformedDropped ==
    (/\ op \in {"update_vad_result", "on_vad_segments"}
     /\ \A i \in 1..Len(run.input) : run.input[i] \notin Mal_Items) => SameAsClean

\* C22: a batch call (update_vad_result / on_vad_segments) on a batch with
\* items of wrong arity, items that are not numbers, or (-1,-1) raises
\* nothing and ends in the state, with the events, of the same call on the
\* batch without those items.
C22_MalformedDropped ==
    op \in {"update_vad_result", "on_vad_segments"} => SameAsClean

----------------------------------------------------------------------------
RECURSIVE OneByOne(_, _, _)
\* the boundaries of a batch delivered as single-boundary batches, in order,
\* at the same instant
OneByOne(w, segs, t) ==
    IF segs = <<>> THEN w
    ELSE OneByOne(update_vad_result(w, <<Head(segs)>>, t), Tail(segs), t)

\* C23: StateMachine.update_vad_result on a batch [b1..bn] ends in the state,
\* with the events, of delivering b1, ..., bn one at a time at the same
\* instant.
C23_ArrivalOrder ==
    (/\ comp = "StateMachine"
     /\ op = "update_vad_result"
     /\ \A i \in 1..Len(run.input) : run.input[i] \in SM_Items) =>
        LET w == OneByOne(World(run.before.sm, run.before.eh), run.input, now)
        IN  sm = w.sm /\ eh = w.eh /\ calls = w.calls /\ sent = w.sent

----------------------------------------------------------------------------
\* something is due at a Tick in state m: an armed debounce has reached its
\* threshold, or the silence timeout has elapsed
TickDue(m) ==
    \/ m.pending_end_time_ms # None /\ now - m.pending_end_time_ms >= end_debounce_ms
    \/ m.pending_start_time_ms # None
          /\ now - m.pending_start_time_ms >= start_debounce_ms
    \/ m.state = SPEAKING /\ m.last_active_time_ms # None
          /\ now - m.last_active_time_ms > silence_timeout_ms

\* C24: a check_silence_timeout at which no armed debounce has reached its
\* threshold and the silence timeout has not elapsed changes no field of the
\* machine or of its handler and emits nothing.
C24_IdleTickChangesNothing ==
    (/\ comp = "StateMachine"
     /\ op = "check_silence_timeout"
     /\ ~TickDue(run.before.sm)) =>
        /\ sm = run.before.sm
        /\ eh = run.before.eh
        /\ calls = <<>> /\ sent = <<>> /\ err = ""

\* a Tick in Speaking with the end debounce armed 400 ms ago and exactly
\* silence_timeout_ms of silence: nothing is due yet
C24_Witness ==
    /\ comp = "StateMachine"
    /\ op = "check_silence_timeout"
    /\ ~TickDue(run.before.sm)
    /\ run.before.sm.state = SPEAKING
    /\ run.before.sm.pending_end_time_ms # None
    /\ now - run.before.sm.last_active_time_ms = silence_timeout_ms
    /\ sm = run.before.sm

----------------------------------------------------------------------------
\* what does hold: in StateMachine and VADSession an open boundary (s,-1)
\* with s < 100 has no effect (the call ends as the call on an empty batch
\* would), and VADSession reports no segment that starts before 100 ms
EarlyOpenIgnored ==
    /\ (comp = "StateMachine" /\ op = "update_vad_result"
                              /\ run.input = << <<50, -1>> >>) =>
          /\ sm = run.before.sm /\ eh = run.before.eh
          /\ calls = <<>> /\ sent = <<>> /\ err = ""
    /\ (comp = "VADSession" /\ op = "update_vad_result"
                            /\ run.input = << <<50, -1>> >>) =>
          LET x == VS_update_vad_result(VS_World(run.before), <<>>)
          IN  vs = x.vs /\ calls = x.calls
    /\ comp = "VADSession" =>
          \A i \in CallsTo("on_voice_end") : calls[i][3] >= 100

\* C25: segments that start less than 100 ms after session start are
\* discarded: an open boundary (s,-1) with s < 100 arms nothing and leads to
\* no voice_start, no segment with start_ms < 100 is reported through
\* voice_end, and none is returned by finish().
C25_EarlySegmentsDiscarded ==
    /\ EarlyOpenIgnored
    /\ (comp = "StreamingVADService" /\ op = "finish") =>
          \A k \in 1..Len(ret) : ret[k][1] >= 100

\* finish() closed the early open boundary (50,-1) and returned it
C25_EarlyOpenReturned ==
    /\ comp = "StreamingVADService" /\ op = "finish"
    /\ svc.accumulated_raw_segments = << <<50, -1>> >>
    /\ run.input = <<>>
    /\ \E k \in 1..Len(ret) : ret[k][1] = 50

----------------------------------------------------------------------------
\* what does hold: StateMachine.interrupt reports an interrupt only when it
\* leaves Speaking, and leaves the machine Idle, so a second interrupt() in
\* a row reports nothing
InterruptOncePerSpeech ==
    (comp = "StateMachine" /\ op = "interrupt") =>
        /\ sm.state # SPEAKING
        /\ run.before.sm.state # SPEAKING => Count(calls, "on_vad_interrupt") = 0

\* C26: at most one interrupt is in flight: once an interrupt has been
\* emitted, further wake-word detections emit none until the machine has
\* been Idle again. VADStateMachine is ASR_ACTIVE only after
\* trigger_kws_wakeup has fired on_interrupt and before the machine returns
\* to Idle.
C26_OneInterruptInFlight ==
    /\ InterruptOncePerSpeech
    /\ (/\ comp = "VADStateMachine"
        /\ op = "trigger_kws_wakeup"
        /\ run.before.state = ASR_ACTIVE) => Count(calls, "on_interrupt") = 0

----------------------------------------------------------------------------
\* C27: VADStateMachine.trigger_kws_wakeup called while the machine is Idle
\* changes no field (state, buffer, speech start, last voice time) and fires
\* no callback.
C27_WakeupInIdleIsNoOp ==
    (/\ comp = "VADStateMachine"
     /\ op = "trigger_kws_wakeup"
     /\ run.before.state = IDLE) =>
        vsm = run.before /\ calls = <<>> /\ err = ""

\* a wake-word trigger reached an Idle machine that holds audio
C27_Witness ==
    /\ comp = "VADStateMachine"
    /\ op = "trigger_kws_wakeup"
    /\ run.before.state = IDLE
    /\ run.before.audio_buffer.total_pushed > 0
    /\ vsm = run.before
    /\ calls = <<>>

----------------------------------------------------------------------------
\* the batch of the last update_vad_result had a close boundary and no
\* (countable) open boundary, and met an Idle machine whose start debounce
\* was armed
CloseMetPendingStart ==
    /\ comp = "StateMachine"
    /\ op = "update_vad_result"
    /\ has_end(run.input) /\ ~has_start(run.input)
    /\ run.before.sm.state = IDLE
    /\ run.before.sm.pending_start_time_ms # None

\* C28: a close boundary that meets a pending start less than
\* min_speech_duration_ms old discards the candidate: the pending start is
\* cleared, the machine stays Idle and nothing is emitted; and a later Tick
\* of an Idle machine with no pending start emits nothing and keeps it so.
C28_ShortCandidateDiscarded ==
    /\ (/\ CloseMetPendingStart
        /\ now - run.before.sm.pending_start_time_ms < min_speech_duration_ms) =>
           /\ sm.pending_start_time_ms = None
           /\ sm.state = IDLE
           /\ calls = <<>> /\ sent = <<>> /\ err = ""
    /\ (/\ comp = "StateMachine"
        /\ op = "check_silence_timeout"
        /\ run.before.sm.state = IDLE
        /\ run.before.sm.pending_start_time_ms = None) =>
           /\ sm.pending_start_time_ms = None
           /\ sm.state = IDLE
           /\ calls = <<>> /\ sent = <<>>

\* a close boundary arrived in the instant the start debounce was armed
C28_Witness ==
    /\ CloseMetPendingStart
    /\ run.before.sm.pending_start_time_ms = now
    /\ sm.pending_start_time_ms = None
    /\ sm.state = IDLE

----------------------------------------------------------------------------
\* C29: a close boundary that meets a pending start at least
\* min_speech_duration_ms old confirms the start in the same call:
\* on_voice_start fires once, the speech start is the time the start debounce
\* was armed, the machine is Speaking and the end debounce is armed now.
C29_RetroactiveStart ==
    (/\ CloseMetPendingStart
     /\ now - run.before.sm.pending_start_time_ms >= min_speech_duration_ms) =>
        /\ Count(calls, "on_voice_start") = 1
        /\ Count(calls, "on_voice_end") = 0
        /\ sm.current_speech_start_ms = run.before.sm.pending_start_time_ms
        /\ sm.state = SPEAKING
        /\ sm.pending_start_time_ms = None
        /\ sm.pending_end_time_ms = now
        /\ err = ""

\* a close boundary arrived exactly min_speech_duration_ms after the start
\* debounce was armed, with no Tick in between
C29_Witness ==
    /\ CloseMetPendingStart
    /\ now - run.before.sm.pending_start_time_ms = min_speech_duration_ms
    /\ sm.state = SPEAKING
    /\ sent = <<"voice_start">>
    /\ sm.pending_end_time_ms = now

----------------------------------------------------------------------------
\* Failing callbacks: the operations of VADSession and StateMachine when the
\* voice-end callback raises (a callable given to VADSession may raise
\* anything; EventHandler.on_voice_end lets through every exception of
\* send_json that _send does not catch).

\* EventHandler.on_voice_end when _send raises: the finally block still sets
\* the state
on_voice_end_raises(w) ==
    [Call(w, <<"on_voice_end">>) EXCEPT !.eh.state = IDLE, !.err = "Exception"]

\* StateMachine._really_handle_voice_end when handler.on_voice_end raises
really_handle_voice_end_raises(w, t) ==
    IF w.sm.state # SPEAKING THEN w
    ELSE IF w.sm.current_speech_start_ms # None
            /\ ~(t - w.sm.current_speech_start_ms < min_speech_duration_ms)
      THEN on_voice_end_raises(w)
    ELSE [w EXCEPT !.sm.state = IDLE,
                   !.sm.current_speech_start_ms = None,
                   !.sm.last_active_time_ms = None,
                   !.sm.last_vad_end_time_ms = None]

\* StateMachine.check_silence_timeout when handler.on_voice_end raises: the
\* exception leaves the method after step 1
check_silence_timeout_raises(w, t) ==
    IF w.sm.pending_end_time_ms # None
       /\ t - w.sm.pending_end_time_ms >= end_debounce_ms
      THEN LET w1 == really_handle_voice_end_raises(
                       [w EXCEPT !.sm.pending_end_time_ms = None], t)
           IN  IF w1.err # "" THEN w1
               ELSE tick_silence(tick_start(w1, t), t)
      ELSE tick_silence(tick_start(w, t), t)

\* VADSession._handle_complete_speech when on_voice_end raises: the state is
\* already VOICE_END and _reset_buffer is not reached
VS_handle_complete_speech_raises(x, start_ms, end_ms) ==
    IF x.vs.state \in {SPEAKING, IDLE}
      THEN [Call([x EXCEPT !.vs.state = VOICE_END],
                 <<"on_voice_end", x.vs.audio_buffer, start_ms, end_ms>>)
              EXCEPT !.err = "Exception"]
      ELSE x

\* VADSession.update_vad_result, the body of the loop for one segment, when
\* on_voice_end raises
VS_segment_raises(x, seg) ==
    IF Len(seg) # 2 THEN x
    ELSE
      LET start == seg[1]
          end == seg[2]
      IN
      IF start # -1 /\ end = -1
        THEN IF start < 100 THEN x
             ELSE LET x1 == IF x.vs.state = IDLE
                              THEN VS_on_voice_start(x, start) ELSE x
                  IN  [x1 EXCEPT !.vs.pending_segments = Append(@, <<start, -1>>)]
      ELSE IF end # -1
        THEN LET i == LastOpen(x.vs.pending_segments)
                 found == start # -1 \/ i # 0
                 actual_start == IF start # -1 THEN start
                                 ELSE IF i # 0 THEN x.vs.pending_segments[i][1]
                                 ELSE -1
                 x1 == IF start = -1 /\ i # 0
                         THEN [x EXCEPT !.vs.pending_segments = Pop(@, i)]
                         ELSE x
             IN  IF ~found THEN x1
                 ELSE IF actual_start >= end \/ actual_start < 100 THEN x1
                 ELSE IF x1.vs.state \in {SPEAKING, IDLE}
                   THEN VS_handle_complete_speech_raises(x1, actual_start, end)
                 ELSE x1
      ELSE x

RECURSIVE VS_loop_raises(_, _)
\* the loop over all_segments, left by the exception
VS_loop_raises(x, segs) ==
    IF segs = <<>> \/ x.err # "" THEN x
    ELSE VS_loop_raises(VS_segment_raises(x, Head(segs)), Tail(segs))

\* VADSession.update_vad_result when on_voice_end raises
VS_update_vad_result_raises(x, vad_segments) ==
    LET current_time_ms == VS_get_total_duration_ms(x.vs)
        all_segments == x.vs.pending_segments \o vad_segments
        x1 == VS_loop_raises([x EXCEPT !.vs.pending_segments = <<>>], all_segments)
    IN  IF x1.err # "" THEN x1
        ELSE IF x1.vs.state = SPEAKING /\ x1.vs.audio_buffer # <<>>
          THEN Call(x1, <<"on_voice_active",
                          x1.vs.audio_buffer[Len(x1.vs.audio_buffer)],
                          current_time_ms>>)
          ELSE x1

Fail_SM_Tick ==
    /\ comp = "StateMachine"
    /\ LET w == check_silence_timeout_raises(World(sm, eh), now) IN
         /\ w.err # ""
         /\ Commit(w, "check_silence_timeout")
    /\ Log(<<>>, [sm |-> sm, eh |-> eh])

Fail_VS_Update ==
    /\ comp = "VADSession"
    /\ \E segs \in Lists(VS_Items, LogBatch) :
         LET x == VS_update_vad_result_raises(VS_World(vs), segs) IN
         /\ x.err # ""
         /\ Len(x.vs.pending_segments) <= MaxPending
         /\ VS_Commit(x, "update_vad_result")
         /\ Log(segs, vs)

InitFail == Init /\ comp \in {"StateMachine", "VADSession"}

NextFail ==
    \/ Log_TimePasses
    \/ Log_SM_Update
    \/ Log_SM_Tick
    \/ Fail_SM_Tick
    \/ Log_SM_Interrupt
    \/ Log_VS_AddAudio
    \/ Log_VS_Update
    \/ Fail_VS_Update
    \/ Log_VS_Interrupt

SpecFail == InitFail /\ [][NextFail]_vars

\* C30: when the voice-end callback raises inside update_vad_result or
\* check_silence_timeout, the controller's fields are those before the call
\* or those the call would have produced had the callback returned; and
\* VADSession is never in VOICE_END with audio still buffered.
C30_NoHalfUpdate ==
    /\ (comp = "VADSession" /\ op = "update_vad_result" /\ err # "") =>
          \/ vs = run.before
          \/ vs = VS_update_vad_result(VS_World(run.before), run.input).vs
    /\ comp = "VADSession" => ~(vs.state = VOICE_END /\ vs.audio_buffer # <<>>)
    /\ (comp = "StateMachine" /\ op = "check_silence_timeout" /\ err # "") =>
          \/ sm = run.before.sm
          \/ sm = check_silence_timeout(World(run.before.sm, run.before.eh), now).sm

\* a StateMachine whose Tick failed in on_voice_end: still Speaking, with the
\* end debounce it was confirming already cleared
C30_TickHalfDone ==
    /\ comp = "StateMachine" /\ op = "check_silence_timeout" /\ err # ""
    /\ sm.state = SPEAKING
    /\ run.before.sm.pending_end_time_ms # None
    /\ sm.pending_end_time_ms = None

----------------------------------------------------------------------------
\* C31: in StateMachine every operation that takes the machine from Idle to
\* Speaking calls on_voice_start in that operation, and a Speaking machine
\* always has its speech start recorded.
C31_SpeakingHasStart ==
    comp = "StateMachine" =>
      /\ sm.state = SPEAKING => sm.current_speech_start_ms # None
      /\ (op # "init" /\ run.before.sm.state = IDLE /\ sm.state = SPEAKING)
            => Count(calls, "on_voice_start") = 1

----------------------------------------------------------------------------
\* C32: in every reachable state of StateMachine a pending start implies
\* Idle, a pending end implies Speaking, and the two are never both set.
C32_OneDebounce ==
    comp = "StateMachine" =>
      /\ sm.pending_start_time_ms # None => sm.state = IDLE
      /\ sm.pending_end_time_ms # None => sm.state = SPEAKING
      /\ ~(sm.pending_start_time_ms # None /\ sm.pending_end_time_ms # None)

\* an interrupt met a Speaking machine whose end debounce was armed and left
\* it Idle with no debounce
C32_Witness ==
    /\ comp = "StateMachine"
    /\ op = "interrupt"
    /\ run.before.sm.state = SPEAKING
    /\ run.before.sm.pending_end_time_ms # None
    /\ sm.state = IDLE
    /\ sm.pending_end_time_ms = None

----------------------------------------------------------------------------
\* Alternation of events: sessions without reset(), where the driver keeps
\* the phase of the callbacks in run.pc and the phase of the messages sent to
\* the client in run.out. A phase is "closed" (no segment announced), "open"
\* (a start announced and not yet ended), "twice" (a start announced while
\* one was open) or "unopened" (an end announced while none was open); the
\* last two are kept once reached.
StartEvents == {"on_voice_start", "voice_start"}
EndEvents == {"on_voice_end", "on_vad_interrupt", "voice_end", "asr_result"}

\* the phase after one event
PhaseStep(p, e) ==
    IF p \in {"twice", "unopened"} THEN p
    ELSE IF e \in StartEvents THEN (IF p = "open" THEN "twice" ELSE "open")
    ELSE IF e \in EndEvents THEN (IF p = "open" THEN "closed" ELSE "unopened")
    ELSE p

RECURSIVE Phase(_, _)
\* the phase after the events q
Phase(p, q) ==
    IF q = <<>> THEN p ELSE Phase(PhaseStep(p, Head(q)), Tail(q))

\* the names of the callbacks in a list of calls
Names(q) == [i \in 1..Len(q) |-> q[i][1]]

\* the phase of the messages after an operation that made the calls q and
\* sent msgs: StateMachine.interrupt ends the segment whether or not the
\* handler got a message out
MessagePhase(p, q, msgs) ==
    LET p1 == Phase(p, msgs)
    IN  IF Count(q, "on_vad_interrupt") > 0 /\ p1 = "open" THEN "closed" ELSE p1

Track(q, msgs) ==
    run' = [run EXCEPT !.pc = Phase(@, Names(q)),
                       !.out = MessagePhase(@, q, msgs)]

Alt_TimePasses ==
    /\ comp = "StateMachine"
    /\ now' = now
    /\ sm' = OlderSM(sm)
    /\ op' = "time"
    /\ calls' = <<>> /\ sent' = <<>> /\ err' = "" /\ ret' = <<>>
    /\ UNCHANGED <<comp, eh, vs, vsm, svc, ws, ab, kws, run>>

Alt_SM_Update ==
    /\ comp = "StateMachine"
    /\ \E segs \in Lists(SM_Items, LogBatch) :
         LET w == update_vad_result(World(sm, eh), segs, now) IN
         Commit(w, "update_vad_result") /\ Track(w.calls, w.sent)

Alt_SM_Tick ==
    /\ comp = "StateMachine"
    /\ LET w == check_silence_timeout(World(sm, eh), now) IN
         Commit(w, "check_silence_timeout") /\ Track(w.calls, w.sent)

Alt_SM_AddAudio ==
    /\ comp = "StateMachine"
    /\ \E dtype \in Dtypes :
         LET w == add_audio_chunk(World(sm, eh), dtype, now) IN
         Commit(w, "add_audio_chunk") /\ Track(w.calls, w.sent)

Alt_SM_Interrupt ==
    /\ comp = "StateMachine"
    /\ LET w == interrupt(World(sm, eh)) IN
         Commit(w, "interrupt") /\ Track(w.calls, w.sent)

Alt_VS_AddAudio ==
    /\ comp = "VADSession"
    /\ \E dtype \in Dtypes, n \in VS_ChunkLens :
         /\ vs.total_samples + n <= MaxSamples
         /\ VS_Commit(VS_add_audio_chunk(VS_World(vs), dtype, n), "add_audio_chunk")
         /\ UNCHANGED run

Alt_VS_Update ==
    /\ comp = "VADSession"
    /\ \E segs \in Lists(VS_Items, LogBatch) :
         LET x == VS_update_vad_result(VS_World(vs), segs) IN
         /\ Len(x.vs.pending_segments) <= MaxPending
         /\ VS_Commit(x, "update_vad_result")
         /\ Track(x.calls, <<>>)

Alt_VS_Interrupt ==
    /\ comp = "VADSession"
    /\ LET x == VS_interrupt(VS_World(vs)) IN
         VS_Commit(x, "interrupt") /\ Track(x.calls, <<>>)

InitAlt ==
    /\ comp \in {"StateMachine", "VADSession"}
    /\ run = [Run0("closed") EXCEPT !.out = "closed"]
    /\ Fresh

NextAlt ==
    \/ Alt_TimePasses
    \/ Alt_SM_Update
    \/ Alt_SM_Tick
    \/ Alt_SM_AddAudio
    \/ Alt_SM_Interrupt
    \/ Alt_VS_AddAudio
    \/ Alt_VS_Update
    \/ Alt_VS_Interrupt

SpecAlt == InitAlt /\ [][NextAlt]_vars

\* C33: without reset(), the handler calls of StateMachine alternate:
\* on_voice_end and on_vad_interrupt come only after an on_voice_start not
\* yet ended, and on_voice_start never comes twice with no end or interrupt
\* in between.
C33_HandlerEventsAlternate ==
    comp = "StateMachine" => run.pc \in {"closed", "open"}

\* what does hold: StateMachine never calls on_voice_start twice with no
\* on_voice_end or on_vad_interrupt in between
SM_NoDoubleStart == comp = "StateMachine" => run.pc # "twice"

\* C34: without reset(), the callbacks of VADSession alternate starting
\* with on_voice_start: on_voice_end comes only for a segment whose
\* on_voice_start came, and on_voice_start never comes twice with no end or
\* interrupt in between.
C34_SessionCallbacksAlternate ==
    comp = "VADSession" => run.pc \in {"closed", "open"}

\* a VADSession in which a batch without an open boundary fired
\* on_voice_start from a retained one
VS_RetainedOpenFiresAgain ==
    /\ comp = "VADSession"
    /\ op = "update_vad_result"
    /\ Count(calls, "on_voice_start") = 1
    /\ run.pc = "open"
    /\ vs.pending_segments # <<>>
    /\ vs.audio_buffer = <<>> /\ vs.total_samples = 0

\* C35: with StateMachine driving EventHandler, every voice_end or
\* asr_result message sent to the client follows a voice_start message of
\* the same segment (a segment ends with its voice_end or with interrupt()),
\* so that after an interrupt the next confirmed start sends voice_start
\* again; and no two voice_start messages come within one segment.
C35_MessagesAlternate ==
    comp = "StateMachine" => run.out \in {"closed", "open"}

----------------------------------------------------------------------------
(* Several /funasr/ws connections served by one process.  The driver       *)
(* notes, per session, where the voice_start / voice_end messages it has   *)
(* received stand (run.out) and whose message was handled last             *)
(* (run.input).                                                            *)

WS_Commit(r, name, s) ==
    /\ ws' = r[1]
    /\ sent' = r[2]
    /\ calls' = <<>>
    /\ err' = ""
    /\ ret' = <<>>
    /\ op' = name
    /\ run' = [run EXCEPT !.input = s, !.out[s] = Phase(@, r[2])]
    /\ UNCHANGED <<comp, now, sm, eh, vs, vsm, svc, ab, kws>>

WS_Accept ==
    /\ comp = "websocket_asr"
    /\ \E s \in Sessions, initialized \in BOOLEAN :
         /\ ws.conn[s].status = "none"
         /\ WS_Commit(WS_accept(ws, s, initialized), "accept", s)

WS_Start ==
    /\ comp = "websocket_asr"
    /\ \E s \in Sessions :
         /\ ws.conn[s].status = "open"
         /\ WS_Commit(WS_start(ws, s), "start", s)

WS_Audio ==
    /\ comp = "websocket_asr"
    /\ \E s \in Sessions,
          outcome \in {"invalid", "raises", "segments", "nothing"} :
         /\ ws.conn[s].status = "open"
         /\ WS_audio(ws, s, outcome)[1].audio_buffers[s] <= MaxCached
         /\ WS_Commit(WS_audio(ws, s, outcome), "audio", s)

WS_Reset ==
    /\ comp = "websocket_asr"
    /\ \E s \in Sessions :
         /\ ws.conn[s].status = "open"
         /\ WS_Commit(WS_reset(ws, s), "reset", s)

WS_Other ==
    /\ comp = "websocket_asr"
    /\ \E s \in Sessions :
         /\ ws.conn[s].status = "open"
         /\ WS_Commit(WS_other(ws, s), "other", s)

WS_Stop ==
    /\ comp = "websocket_asr"
    /\ \E s \in Sessions :
         /\ ws.conn[s].status = "open"
         /\ WS_Commit(WS_stop(ws, s), "stop", s)

WS_Disconnect ==
    /\ comp = "websocket_asr"
    /\ \E s \in Sessions :
         /\ ws.conn[s].status = "open"
         /\ WS_Commit(WS_disconnect(ws, s), "disconnect", s)

InitWs ==
    /\ comp = "websocket_asr"
    /\ Fresh
    /\ run = [Run0("free") EXCEPT !.out = [s \in Sessions |-> "closed"]]

NextWs ==
    \/ WS_Accept
    \/ WS_Start
    \/ WS_Audio
    \/ WS_Reset
    \/ WS_Other
    \/ WS_Stop
    \/ WS_Disconnect

SpecWs == InitWs /\ [][NextWs]_vars

\* C36: the /funasr/ws handler reports both ends of speech: on every open
\* connection a voice_start that no voice_end has followed yet means the
\* stream's voice state is still SPEAKING (the voice_end is sent with the
\* message on which the state leaves SPEAKING), and no session receives a
\* second voice_start before a voice_end, or a voice_end without a
\* voice_start.
C36_BothEndsReported ==
    \A s \in Sessions :
        /\ run.out[s] \in {"closed", "open"}
        /\ (ws.conn[s].status = "open" /\ run.out[s] = "open")
               => Stream_get_voice_state(ws.conn[s].last_vad_state) = SPEAKING

\* what the handler does instead: a session receives voice_start twice
\* and no voice_end (reachable)
C36_StartTwice == \E s \in Sessions : run.out[s] = "twice"

\* what does hold: no connection ever receives a voice_end
C36_NeverVoiceEnd == \A i \in 1 .. Len(sent) : sent[i] # "voice_end"

\* C37: after a /funasr/ws connection has ended (stop, error or
\* disconnect) its session id is a key of none of active_streams,
\* session_states and audio_buffers, whatever the other connections did
\* in between.
C37_EndedSessionForgotten ==
    \A s \in Sessions :
        ws.conn[s].status = "ended"
            => /\ s \notin ws.active_streams
               /\ ws.session_states[s] = "absent"
               /\ ws.audio_buffers[s] = -1

\* what does hold: the finally block removes the stream
C37_StreamRemoved ==
    \A s \in Sessions :
        ws.conn[s].status = "ended" => s \notin ws.active_streams

\* what does hold: a message of one session changes no entry of another
C37_OthersUntouched ==
    [][\A s \in Sessions :
          s # run'.input
              => /\ (s \in ws'.active_streams) = (s \in ws.active_streams)
                 /\ ws'.session_states[s] = ws.session_states[s]
                 /\ ws'.audio_buffers[s] = ws.audio_buffers[s]
                 /\ ws'.conn[s] = ws.conn[s]]_vars

----------------------------------------------------------------------------
(* One chunking buffer fed as its owner feeds it: EventHandler adds the    *)
(* float32 chunk it converted, the /test_vad route the int16 array it      *)
(* decoded.  The k-th sample added since the last clear() is sample k.     *)
(* The driver notes how many samples it added (run.mark), in how many      *)
(* calls (run.calls), and every chunk it was handed, in order (run.out).   *)

\* add() calls followed between two clear()
MaxAdds == 4

AB_ChunkLens(class) ==
    IF class = "test_vad.AudioBuffer" THEN {640, 1600, 4000}
    ELSE {3200, 9600, 12000}

RECURSIVE Flatten(_)
Flatten(chunks) ==
    IF chunks = <<>> THEN <<>> ELSE RunsCat(Head(chunks), Flatten(Tail(chunks)))

AB_Add ==
    /\ comp \in AB_Classes
    /\ run.calls < MaxAdds
    /\ \E n \in AB_ChunkLens(comp) :
         LET audio == [dtype |-> AB_dtype(comp),
                       samples |-> <<<<run.mark + 1, run.mark + n>>>>]
         IN  /\ ab' = AB_add(comp, ab, audio)
             /\ run' = [run EXCEPT !.mark = @ + n, !.calls = @ + 1,
                                   !.input = audio]
    /\ ret' = <<>>
    /\ op' = "add"
    /\ UNCHANGED <<comp, now, sm, eh, calls, sent, vs, vsm, svc, ws, kws, err>>

AB_GetChunks ==
    /\ comp \in AB_Classes
    /\ LET r == AB_get_chunks(comp, ab, <<>>)
       IN  /\ ab' = r[1]
           /\ ret' = r[2]
           /\ run' = [run EXCEPT !.out = RunsCat(@, Flatten(r[2]))]
    /\ op' = "get_chunks"
    /\ UNCHANGED <<comp, now, sm, eh, calls, sent, vs, vsm, svc, ws, kws, err>>

\* asr/streaming's ASRAudioBuffer has no clear()
AB_Clear ==
    /\ comp \in AB_Classes \ {"asr.ASRAudioBuffer"}
    /\ ab' = AB_clear(comp, ab)
    /\ run' = [run EXCEPT !.mark = 0, !.calls = 0, !.out = <<>>]
    /\ ret' = <<>>
    /\ op' = "clear"
    /\ UNCHANGED <<comp, now, sm, eh, calls, sent, vs, vsm, svc, ws, kws, err>>

InitAB ==
    /\ comp \in AB_Classes
    /\ now = Horizon * Quantum
    /\ sm = SM_init
    /\ eh = EH_init
    /\ vs = VS_init
    /\ vsm = VSM_init
    /\ svc = SVC_init
    /\ ws = WS_init
    /\ ab = AB_init(comp)
    /\ kws = KWS_init
    /\ calls = <<>>
    /\ sent = <<>>
    /\ err = ""
    /\ ret = <<>>
    /\ op = "init"
    /\ run = [Run0("free") EXCEPT !.mark = 0, !.calls = 0, !.out = <<>>]

NextAB ==
    \/ AB_Add
    \/ AB_GetChunks
    \/ AB_Clear

SpecAB == InitAB /\ [][NextAB]_vars

\* the samples 1 .. n in order, as a list of runs
AllAdded(n) == IF n = 0 THEN <<>> ELSE <<<<1, n>>>>

\* C38: draining into fixed-size chunks loses and reorders nothing: every
\* chunk get_chunks() returns has exactly target_len samples, fewer than
\* target_len samples stay buffered after it, and at every moment the
\* chunks returned so far followed by the buffer are exactly the samples
\* added since the last clear(), in the order they were added.
C38_DrainKeepsEverything ==
    /\ op = "get_chunks"
           => /\ \A i \in 1 .. Len(ret) : RunsLen(ret[i]) = AB_target(comp)
              /\ RunsLen(ab.samples) < AB_target(comp)
    /\ RunsCat(run.out, ab.samples) = AllAdded(run.mark)
    /\ ab.dtype = AB_dtype(comp)

\* get_chunks() has returned two chunks at once, after an earlier drain,
\* and left a remainder
C38_Witness ==
    /\ op = "get_chunks"
    /\ Len(ret) = 2
    /\ ab.samples # <<>>
    /\ RunsLen(run.out) > 2 * AB_target(comp)

----------------------------------------------------------------------------
(* StreamingVADService.is_speech_active against the boundaries the        *)
(* service has accumulated.                                                *)

\* raw holds an open boundary (s,-1) with no close boundary (-1,e) after it
UnclosedOpen(raw) ==
    \E i \in 1 .. Len(raw) :
        /\ IsOpen(raw[i])
        /\ \A j \in (i + 1) .. Len(raw) :
               ~(Len(raw[j]) = 2 /\ raw[j][1] = -1 /\ raw[j][2] # -1)

\* C39: is_speech_active() is true exactly while speech is in progress:
\* after any sequence of process() calls it returns True iff the
\* accumulated raw boundaries hold an open boundary not yet followed by a
\* close boundary, also after chunks for which the engine returned no
\* boundary.
C39_ActiveWhileOpen ==
    (/\ comp = "StreamingVADService"
     /\ op \in {"init", "process"}
     /\ \A i \in 1 .. Len(svc.accumulated_raw_segments) :
            svc.accumulated_raw_segments[i] # <<-1, -1>>)
        => (SVC_is_speech_active(svc)
                <=> UnclosedOpen(svc.accumulated_raw_segments))

\* what does hold: is_speech_active() reports whether the last processed
\* chunk's own output held an open boundary
C39_ActiveIsLastChunk ==
    (/\ comp = "StreamingVADService"
     /\ op = "process"
     /\ err = ""
     /\ svc.total_samples > run.before.total_samples)
        => (SVC_is_speech_active(svc)
                <=> \E i \in 1 .. Len(ret) : ret[i][2] = -1)

\* the case of the claim: an open boundary is pending, the engine returns
\* nothing for the next chunk, and is_speech_active() is False (reachable)
C39_OpenButInactive ==
    /\ comp = "StreamingVADService"
    /\ op = "process"
    /\ err = ""
    /\ ret = <<>>
    /\ svc.total_samples > run.before.total_samples
    /\ svc.accumulated_raw_segments = <<<<100, -1>>>>
    /\ ~SVC_is_speech_active(svc)

----------------------------------------------------------------------------
(* One StreamingKWSService fed chunk by chunk.  The driver notes the       *)
(* chunk it passed (run.input), the service before the call and whether    *)
(* a call has returned True since the last reset() (run.before, run.pc).   *)

\* chunks followed in _buffer
MaxChunks == 4

\* 20 ms, 0.75 s, 1 s and 1.875 s of audio
KWS_ChunkLens == {320, 12000, 16000, 30000}

KWS_Commit(r, name, input) ==
    /\ kws' = r[1]
    /\ ret' = <<r[2]>>
    /\ calls' = r[3]
    /\ err' = r[4]
    /\ op' = name
    /\ run' = [run EXCEPT
                 !.input = input,
                 !.before = [kws |-> kws, seen |-> run.pc],
                 !.pc = IF name = "reset" THEN "free"
                        ELSE IF r[2] THEN "latched" ELSE @]
    /\ UNCHANGED <<comp, now, sm, eh, sent, vs, vsm, svc, ws, ab>>

KWS_Detect ==
    /\ comp = "StreamingKWSService"
    /\ Len(kws.buffer) < MaxChunks
    /\ \E dtype \in {"float32", "int16", "float64"}, n \in KWS_ChunkLens,
          answer \in {"keyword", "none", "raises"} :
         KWS_Commit(KWS_detect_keyword_stream(kws, dtype, n, answer),
                    "detect_keyword_stream", <<dtype, n>>)

KWS_Reset ==
    /\ comp = "StreamingKWSService"
    /\ KWS_Commit(<<KWS_reset(kws), FALSE, <<>>, "">>, "reset", <<>>)

InitKws ==
    /\ comp = "StreamingKWSService"
    /\ Fresh
    /\ run = Run0("free")

NextKws ==
    \/ KWS_Detect
    \/ KWS_Reset

SpecKws == InitKws /\ [][NextKws]_vars

\* C40: StreamingKWSService latches a detection: once
\* detect_keyword_stream has returned True, every later call returns True
\* without calling the model or changing the buffer, until reset(); after
\* reset() the buffer is empty, the sample count 0 and the latch cleared;
\* and after every call the sample count is the sum of the buffered
\* chunks' lengths and at most max_buffer_samples.
C40_DetectionLatched ==
    /\ (op = "detect_keyword_stream" /\ run.before.seen = "latched")
           => /\ ret = <<TRUE>>
              /\ err = ""
              /\ calls = <<>>
              /\ kws = run.before.kws
    /\ op = "reset"
           => /\ kws.buffer = <<>>
              /\ kws.total_samples = 0
              /\ ~kws.is_keyword_detected
    /\ kws.total_samples = Total(kws.buffer)
    /\ kws.total_samples <= max_buffer_samples

\* a call on a latched service that holds audio, with a chunk the
\* unlatched service would have refused
C40_Witness ==
    /\ op = "detect_keyword_stream"
    /\ run.before.seen = "latched"
    /\ run.input[1] = "float64"
    /\ Len(kws.buffer) >= 2

\* an unlatched call that made _trim_buffer drop the oldest chunk
C40_WitnessTrim ==
    /\ op = "detect_keyword_stream"
    /\ run.before.seen = "free"
    /\ err = ""
    /\ run.before.kws.buffer # <<>>
    /\ Len(kws.buffer) <= Len(run.before.kws.buffer)
    /\ kws.buffer # <<>>

\* what also holds: the latch is set exactly when a call has returned
\* True since the last reset()
C40_LatchIsSeen ==
    comp = "StreamingKWSService"
        => (kws.is_keyword_detected <=> run.pc = "latched")

====
